---- MODULE Spec2Model ----
(***************************************************************************)
(* A model of the CAMARA API review validator                              *)
(* (scripts/api_review_validator_v0_6.py).                                 *)
(*                                                                         *)
(* Strings are sequences of symbols.  A symbol is a character or an        *)
(* indivisible run of characters ("subscription", "{apiRoot}", "vwip");    *)
(* startswith, 'in', split and lower() are computed on these sequences.    *)
(* A YAML value is a tagged pair: <<"dict", items>> with items an ordered  *)
(* sequence of <<key, value>> pairs (Python dicts keep insertion order),   *)
(* <<"list", items>>, <<"str", s>> or <<"none", <<>>>>.                    *)
(***************************************************************************)
EXTENDS Integers, Sequences, FiniteSets, TLC

VARIABLES
    review_type,     \* CAMARAAPIValidator.review_type
    expected_commonalities_version,  \* CAMARAAPIValidator.expected_commonalities_version
    api_spec,        \* CAMARAAPIValidator.api_spec: the file whose document is stored
    results,         \* main(): results, the ValidationResults in call order
    cls_doc,         \* classifier run: index of the document handed to _detect_api_type
    cls_first,       \* classifier run: outcome of the first call
    cls_second,      \* classifier run: outcome of the repeated call
    map_case,        \* mapper run: the input (specifications, test directory)
    map_pc,          \* mapper run: position in map_and_validate_test_files_to_apis
    all_api_names,   \* mapper local: all_api_names
    assignments,     \* mapper local: test_file_assignments, as <<stem, api-name>> pairs
    api_to_test,     \* mapper local: api_to_test_files, as <<api-name, paths>> pairs
    test_results,    \* mapper local: test_results
    norm_in,         \* normalisation run: the pair of schemas handed in
    norm_out,        \* normalisation run: their normal forms, and the second pass
    con_files,       \* consistency run: api_files handed to validate_project_consistency
    con_result,      \* consistency run: what the call gave
    main_pc,         \* main(): position in the run
    consistency_result,  \* main(): consistency_result
    main_tests,      \* main(): test_results
    exit_status,     \* main(): the status handed to sys.exit
    sum_in,          \* summary run: the issues handed to generate_report
    sum_out,         \* summary run: the issues the summary lists
    resp_case,       \* response run: the error response under validation
    resp_out,        \* response run: what _validate_error_response gave
    thr_files,       \* threaded run: the file of each validate_api_file call
    thr_pc,          \* threaded run: the position of each call
    thr_local,       \* threaded run: the locals api_spec and result of each call
    thr_seen,        \* threaded run: what each check met when it ran
    chk_case,        \* check run: the input handed to the check under study
    chk_out          \* check run: what the check gave

vars == <<review_type, expected_commonalities_version, api_spec, results, cls_doc, cls_first, cls_second,
          map_case, map_pc, all_api_names, assignments, api_to_test,
          test_results, norm_in, norm_out, con_files, con_result,
          main_pc, consistency_result, main_tests, exit_status,
          sum_in, sum_out, resp_case, resp_out,
          thr_files, thr_pc, thr_local, thr_seen, chk_case, chk_out>>

valVars == <<review_type, expected_commonalities_version, api_spec, results>>
clsVars == <<cls_doc, cls_first, cls_second>>
mapVars == <<map_case, map_pc, all_api_names, assignments, api_to_test, test_results>>
normVars == <<norm_in, norm_out>>
conVars == <<con_files, con_result>>
mainVars == <<main_pc, consistency_result, main_tests, exit_status>>
sumVars == <<sum_in, sum_out>>
respVars == <<resp_case, resp_out>>
thrVars == <<thr_files, thr_pc, thr_local, thr_seen>>
chkVars == <<chk_case, chk_out>>
restVars == <<conVars, mainVars, sumVars, respVars, thrVars, chkVars>>

(***************************************************************************)
(* Python strings                                                          *)
(***************************************************************************)

\* str.startswith(p)
StartsWith(s, p) == Len(s) >= Len(p) /\ SubSeq(s, 1, Len(p)) = p

\* p in s, for strings
Contains(s, p) == \E i \in 0..(Len(s) - Len(p)) : SubSeq(s, i + 1, i + Len(p)) = p

\* the symbols that have an upper-case letter, with their lower-case form
LowerSym(c) ==
    CASE c = "Subscription" -> "subscription"
      [] c = "Event" -> "event"
      [] c = "Notification" -> "notification"
      [] c = "Webhook" -> "webhook"
      [] c = "Callback" -> "callback"
      [] c = "ErrorInfo" -> "errorinfo"
      [] c = "XCorrelator" -> "xcorrelator"
      [] c = "Item" -> "item"
      [] c = "Device" -> "device"
      [] c = "GET" -> "get"
      [] c = "POST" -> "post"
      [] c = "PUT" -> "put"
      [] c = "DELETE" -> "delete"
      [] c = "PATCH" -> "patch"
      [] c = "Authorization" -> "authorization"
      [] c = "AUTHORIZATION" -> "authorization"
      [] c = "Additional" -> "additional"
      [] c = "CAMARA" -> "camara"
      [] c = "Camara Security and Interoperability Profile"
            -> "camara security and interoperability profile"
      [] c = "Identity and Consent Management" -> "identity and consent management"
      [] c = "github.com/camaraproject/IdentityAndConsentManagement"
            -> "github.com/camaraproject/identityandconsentmanagement"
      [] c = "CAMARA API Design Guide" -> "camara api design guide"
      [] c = "Commonalities Release" -> "commonalities release"
      [] c = "API Readiness Checklist" -> "api readiness checklist"
      [] c = "501 - NOT" -> "501 - not"
      [] c = "IMPLEMENTED" -> "implemented"
      [] c = "Status" -> "status"
      [] OTHER -> c

\* str.lower()
Lower(s) == [i \in 1..Len(s) |-> LowerSym(s[i])]

\* s.split(sep), for a one-symbol separator
RECURSIVE Split(_, _)
Split(s, sep) ==
    IF \E i \in 1..Len(s) : s[i] = sep
    THEN LET n == CHOOSE i \in 1..Len(s) : s[i] = sep /\ \A j \in 1..(i - 1) : s[j] # sep
         IN <<SubSeq(s, 1, n - 1)>> \o Split(SubSeq(s, n + 1, Len(s)), sep)
    ELSE <<s>>

\* [x for x in xs if x]
NonEmpty(xs) == SelectSeq(xs, LAMBDA x : x # <<>>)

Digit == {"0", "1", "2", "3", "4", "5", "6", "7", "8", "9"}

\* \d+
IsDigits(s) == Len(s) > 0 /\ \A i \in 1..Len(s) : s[i] \in Digit

\* ^\d+\.\d+\.\d+(-rc\.\d+|-alpha\.\d+)?$
IsSemver(s) ==
    \E i, j, k \in 1..Len(s) :
        /\ i < j /\ j <= k
        /\ s[i] = "." /\ s[j] = "."
        /\ IsDigits(SubSeq(s, 1, i - 1))
        /\ IsDigits(SubSeq(s, i + 1, j - 1))
        /\ IsDigits(SubSeq(s, j + 1, k))
        /\ \/ k = Len(s)
           \/ /\ k + 2 < Len(s)
              /\ s[k + 1] \in {"-rc", "-alpha"}
              /\ s[k + 2] = "."
              /\ IsDigits(SubSeq(s, k + 3, Len(s)))

\* the symbols made of [a-z0-9-] only
KebabSym == Digit \cup {"-", "a", "b", "c", "v", "foo", "bar", "create", "item", "items",
                        "device", "status", "location", "vwip", "subscription",
                        "s", "event", "notification"}

\* the number of characters of a symbol of an api-name or file stem
SymLen(c) ==
    CASE c \in {"foo", "bar"} -> 3
      [] c \in {"item", "vwip"} -> 4
      [] c \in {"items", "event"} -> 5
      [] c \in {"device", "status", "create"} -> 6
      [] c = "location" -> 8
      [] c \in {"subscription", "notification"} -> 12
      [] OTHER -> 1

\* len(s)
RECURSIVE StrLen(_)
StrLen(s) == IF s = <<>> THEN 0 ELSE SymLen(s[1]) + StrLen(Tail(s))

\* ^[a-z0-9-]+$
IsKebab(s) == Len(s) > 0 /\ \A i \in 1..Len(s) : s[i] \in KebabSym

(***************************************************************************)
(* Python values                                                           *)
(***************************************************************************)

PStr(s) == <<"str", s>>
PDict(items) == <<"dict", items>>
PList(items) == <<"list", items>>
PNone == <<"none", <<>>>>
EmptyDict == PDict(<<>>)
EmptyStr == PStr(<<>>)

\* isinstance(v, dict)
IsDict(v) == v[1] = "dict"
IsList(v) == v[1] = "list"
IsStr(v) == v[1] = "str"

\* bool(v)
Truthy(v) == v[1] # "none" /\ v[2] # <<>>

\* k in d, for a dict d
Has(d, k) == \E i \in 1..Len(d[2]) : d[2][i][1] = k

\* d[k]
Item(d, k) == d[2][CHOOSE i \in 1..Len(d[2]) : d[2][i][1] = k][2]

\* d.get(k, default); a key given twice in YAML keeps its last value, so keys are distinct
Get(d, k, default) == IF Has(d, k) THEN Item(d, k) ELSE default

\* list(d.keys())
Keys(d) == [i \in 1..Len(d[2]) |-> d[2][i][1]]

\* list(d.values())
Values(d) == [i \in 1..Len(d[2]) |-> d[2][i][2]]

\* the text of a string value
Text(v) == v[2]

(***************************************************************************)
(* Issues and check outcomes                                               *)
(***************************************************************************)

\* ValidationIssue(severity, category, description, location)
Issue(sev, cat, desc, loc) ==
    [severity |-> sev, category |-> cat, description |-> desc, location |-> loc]

\* a piece of code that ran to its end, or raised after appending some issues
Done(issues) == [issues |-> issues, raised |-> FALSE]
Raised(issues) == [issues |-> issues, raised |-> TRUE]

\* statement a; statement b
Then(a, b) == IF a.raised THEN a ELSE [issues |-> a.issues \o b.issues, raised |-> b.raised]

\* for x in xs: body(x)
RECURSIVE ForEach(_)
ForEach(outs) == IF outs = <<>> THEN Done(<<>>) ELSE Then(Head(outs), ForEach(Tail(outs)))

\* result.issues.append(issue) if cond
When(cond, issue) == Done(IF cond THEN <<issue>> ELSE <<>>)

\* ', '.join(xs)
RECURSIVE Join(_)
Join(xs) ==
    IF xs = <<>> THEN <<>>
    ELSE IF Len(xs) = 1 THEN xs[1]
    ELSE xs[1] \o <<", ">> \o Join(Tail(xs))

(***************************************************************************)
(* Info object                                                             *)
(***************************************************************************)

WhiteSym == {" ", "\n"}
\* the characters *, _ and the backquote (written "backquote": a TLA+ string cannot hold one)
MarkSym == {"*", "_", "backquote"}

\* _normalize_text_for_template_check
NormalizeText(text) ==
    LET low == Lower(text)
        RECURSIVE strip(_)
        strip(t) == IF t # <<>> /\ t[1] \in WhiteSym THEN strip(Tail(t))
                    ELSE IF t # <<>> /\ t[Len(t)] \in WhiteSym THEN strip(SubSeq(t, 1, Len(t) - 1))
                    ELSE t
        RECURSIVE squeeze(_)
        squeeze(t) == IF t = <<>> THEN <<>>
                      ELSE IF t[1] \in WhiteSym
                           THEN IF Len(t) > 1 /\ t[2] \in WhiteSym THEN squeeze(Tail(t))
                                ELSE <<" ">> \o squeeze(Tail(t))
                           ELSE <<t[1]>> \o squeeze(Tail(t))
    IN SelectSeq(squeeze(strip(low)), LAMBDA c : c \notin MarkSym)

\* re.search(r'#\s*<w1>\s+<w2>...', description, re.IGNORECASE)
HeaderSearch(description, words) ==
    LET low == Lower(description)
        RECURSIVE rest(_, _, _)
        \* the words from w on match at i; need says whether white space must come first
        rest(i, w, need) ==
            IF w > Len(words) THEN TRUE
            ELSE IF i <= Len(low) /\ low[i] \in WhiteSym THEN rest(i + 1, w, FALSE)
            ELSE ~need /\ i <= Len(low) /\ low[i] = LowerSym(words[w]) /\ rest(i + 1, w + 1, TRUE)
    IN \E i \in 1..Len(low) : low[i] = "#" /\ rest(i + 1, 1, FALSE)

AuthComponents == <<
    <<"#", " ", "Authorization", " ", "and", " ", "authentication">>,
    <<"Camara Security and Interoperability Profile">>,
    <<"Identity and Consent Management">>,
    <<"github.com/camaraproject/IdentityAndConsentManagement">>,
    <<"authorization flows to be used will be agreed upon during the onboarding process">>,
    <<"three-legged access tokens is mandatory">>,
    <<"privacy regulations">> >>

ErrorComponents == <<
    <<"#", " ", "Additional", " ", "CAMARA", " ", "error", " ", "responses">>,
    <<"not exhaustive">>,
    <<"CAMARA API Design Guide">>,
    <<"CAMARA", "_", "common.yaml">>,
    <<"Commonalities Release">>,
    <<"API Readiness Checklist">>,
    <<"501 - NOT", "_", "IMPLEMENTED">> >>

\* the first missing component alone
FirstMissing(description, required) ==
    LET missing == SelectSeq(required,
                             LAMBDA c : ~Contains(NormalizeText(description), NormalizeText(c)))
    IN SubSeq(missing, 1, 1)

\* missing_components of a template check
MissingComponents(description, required) ==
    SelectSeq(required,
              LAMBDA c : ~Contains(NormalizeText(description), NormalizeText(c)))

\* _validate_authorization_template
ValidateAuthorizationTemplate(description) ==
    IF ~Truthy(description)
    THEN Done(<<Issue("Critical", "Authorization Template",
                      <<"Missing info.description - required for authorization template">>,
                      <<"info.description">>)>>)
    ELSE LET missing == MissingComponents(Text(description), AuthComponents)
         IN Then(When(missing # <<>>,
                      Issue("Critical", "Authorization Template",
                            <<"Missing required authorization template components: ">> \o Join(missing),
                            <<"info.description">>)),
                 When(~HeaderSearch(Text(description), <<"Authorization", "and", "authentication">>),
                      Issue("Critical", "Authorization Template",
                            <<"Missing required '# Authorization and authentication' header">>,
                            <<"info.description">>)))

\* float(self.expected_commonalities_version) < 0.6, for the versions "X.Y" main() accepts
BelowV06(version) == version \in {<<"0", ".", "5">>, <<"0", ".", "4">>}

\* _validate_error_responses_template
ValidateErrorResponsesTemplate(description, expected_version) ==
    IF ~Truthy(description) \/ BelowV06(expected_version)
    THEN Done(<<>>)
    ELSE LET missing == MissingComponents(Text(description), ErrorComponents)
         IN Then(When(missing # <<>>,
                      Issue("Critical", "Error Responses Template",
                            <<"Missing required error responses template components: ">> \o Join(missing),
                            <<"info.description">>)),
                 When(~HeaderSearch(Text(description),
                                    <<"Additional", "CAMARA", "error", "responses">>),
                      Issue("Critical", "Error Responses Template",
                            <<"Missing required '# Additional CAMARA error responses' header">>,
                            <<"info.description">>)))

ApacheName == <<"Apache 2.0">>
ApacheUrl == <<"https://", "www.apache.org/licenses/LICENSE-2.0.html">>

\* _validate_info_object
ValidateInfoObject(doc, expected_version) ==
    LET info == Get(doc, <<"info">>, EmptyDict)
        title == Get(info, <<"title">>, EmptyStr)
        version == Get(info, <<"version">>, EmptyStr)
        license_info == Get(info, <<"license">>, EmptyDict)
        description == Get(info, <<"description">>, EmptyStr)
        commonalities == Get(info, <<"x-camara-commonalities">>, PNone)
    IN IF ~Truthy(info)
       THEN Done(<<Issue("Critical", "Info Object", <<"Missing required 'info' object">>, <<>>)>>)
       ELSE ForEach(<<
            IF ~Truthy(title)
            THEN Done(<<Issue("Critical", "Info Object", <<"Missing required 'title' field">>,
                              <<"info.title">>)>>)
            ELSE When(Contains(Text(title), <<"API">>),
                      Issue("Medium", "Info Object",
                            <<"Title should not include 'API': '">> \o Text(title) \o <<"'">>,
                            <<"info.title">>)),
            When(Text(version) # <<"wip">> /\ ~IsSemver(Text(version)),
                 Issue("Critical", "Info Object",
                       <<"Invalid version format: '">> \o Text(version) \o <<"'">>,
                       <<"info.version">>)),
            When(Get(license_info, <<"name">>, PNone) # PStr(ApacheName),
                 Issue("Critical", "Info Object", <<"License must be 'Apache 2.0'">>,
                       <<"info.license.name">>)),
            When(Get(license_info, <<"url">>, PNone) # PStr(ApacheUrl),
                 Issue("Critical", "Info Object", <<"Incorrect license URL">>,
                       <<"info.license.url">>)),
            ValidateAuthorizationTemplate(description),
            ValidateErrorResponsesTemplate(description, expected_version),
            When(Text(commonalities) # expected_version,
                 Issue("Medium", "Info Object",
                       <<"Expected commonalities '">> \o expected_version \o <<"', found: '">>
                           \o Text(commonalities) \o <<"'">>,
                       <<"info.x-camara-commonalities">>)),
            When(Has(info, <<"termsOfService">>),
                 Issue("Medium", "Info Object",
                       <<"'termsOfService' should not be in the API definition">>,
                       <<"info.termsOfService">>)) >>)

(***************************************************************************)
(* External documentation and servers                                      *)
(***************************************************************************)

\* _validate_external_docs with the test of the url turned round
ValidateExternalDocsUrlPresent(doc) ==
    LET external_docs == Get(doc, <<"externalDocs">>, PNone)
    IN IF ~Truthy(external_docs)
       THEN Done(<<Issue("Critical", "ExternalDocs", <<"Missing externalDocs object">>,
                         <<"externalDocs">>)>>)
       ELSE When(Truthy(Get(external_docs, <<"url">>, EmptyStr)),
                 Issue("Critical", "ExternalDocs", <<"Missing externalDocs URL">>,
                       <<"externalDocs.url">>))

\* _validate_external_docs
ValidateExternalDocs(doc) ==
    LET external_docs == Get(doc, <<"externalDocs">>, PNone)
        url == Get(external_docs, <<"url">>, EmptyStr)
    IN IF ~Truthy(external_docs)
       THEN Done(<<Issue("Critical", "ExternalDocs", <<"Missing externalDocs object">>,
                         <<"externalDocs">>)>>)
       ELSE Then(When(~Truthy(Get(external_docs, <<"description">>, PNone)),
                      Issue("Medium", "ExternalDocs", <<"Missing externalDocs description">>,
                            <<"externalDocs.description">>)),
                 IF ~Truthy(url)
                 THEN Done(<<Issue("Critical", "ExternalDocs", <<"Missing externalDocs URL">>,
                                   <<"externalDocs.url">>)>>)
                 ELSE When(~StartsWith(Text(url), <<"https://">>),
                           Issue("Medium", "ExternalDocs", <<"External docs URL should use HTTPS">>,
                                 <<"externalDocs.url">>)))

\* str(i) for a small number
Dec(i) == <<CASE i = 0 -> "0" [] i = 1 -> "1" [] i = 2 -> "2" [] i = 3 -> "3" [] OTHER -> "n">>

\* api_spec.get('servers', []), as the sequence of its entries
Servers(doc) == Get(doc, <<"servers">>, PList(<<>>))[2]

\* _validate_servers; server.get raises on an entry that is no mapping
ValidateServers(doc) ==
    IF Servers(doc) = <<>>
    THEN Done(<<Issue("Medium", "Servers", <<"No servers defined">>, <<"servers">>)>>)
    ELSE ForEach([i \in 1..Len(Servers(doc)) |->
            LET server == Servers(doc)[i]
                url == Get(server, <<"url">>, EmptyStr)
                loc == <<"servers[">> \o Dec(i - 1) \o <<"].url">>
            IN IF ~IsDict(server) THEN Raised(<<>>)
               ELSE IF ~Truthy(url)
               THEN Done(<<Issue("Critical", "Servers",
                                 <<"Server ">> \o Dec(i) \o <<" missing URL">>, loc)>>)
               ELSE When(~StartsWith(Text(url), <<"https://">>)
                            /\ ~StartsWith(Text(url), <<"{apiRoot}">>),
                         Issue("Medium", "Servers",
                               <<"Server URL should use HTTPS or template: '">> \o Text(url) \o <<"'">>,
                               loc))])

\* s.lstrip('/')
RECURSIVE LStripSlash(_)
LStripSlash(s) == IF s # <<>> /\ s[1] = "/" THEN LStripSlash(Tail(s)) ELSE s

\* urlparse(url).path, for scheme://netloc/path
UrlPath(url) ==
    LET rest == Tail(url)
    IN IF \E i \in 1..Len(rest) : rest[i] = "/"
       THEN SubSeq(rest, CHOOSE i \in 1..Len(rest) : rest[i] = "/" /\ \A j \in 1..(i - 1) : rest[j] # "/",
                   Len(rest))
       ELSE <<>>

\* re.match(r'^v\d+', part)
LooksLikeVersion(part) == Len(part) >= 2 /\ part[1] = "v" /\ part[2] \in Digit

\* the api-name one server URL contributes to api_names, <<>> when it contributes none
ServerApiName(url) ==
    LET path == IF StartsWith(url, <<"{apiRoot}", "/">>) THEN SubSeq(url, 3, Len(url))
                ELSE IF StartsWith(url, <<"http://">>) \/ StartsWith(url, <<"https://">>)
                     THEN LStripSlash(UrlPath(url))
                ELSE LStripSlash(url)
        path_parts == NonEmpty(Split(path, "/"))
    IN IF Len(path_parts) >= 2 THEN path_parts[1]
       ELSE IF Len(path_parts) = 1 /\ ~LooksLikeVersion(path_parts[1]) THEN path_parts[1]
       ELSE <<>>

\* the symbols of api-names in code point order of their first differing character
NameOrder == <<"-", "0", "1", "2", "3", "4", "5", "6", "7", "8", "9", "a", "b", "c", "device",
               "foo", "item", "location", "status">>
Rank(c) == CHOOSE i \in 1..Len(NameOrder) : NameOrder[i] = c

\* a < b, for strings
RECURSIVE Before(_, _)
Before(a, b) ==
    IF b = <<>> THEN FALSE
    ELSE IF a = <<>> THEN TRUE
    ELSE IF a[1] = b[1] THEN Before(Tail(a), Tail(b))
    ELSE Rank(a[1]) < Rank(b[1])

NoName == <<>>

\* _extract_api_name_from_servers: [name |-> the api-name or NoName, raised |-> server.get raised]
ExtractApiNameFromServers(doc) ==
    LET servers == Servers(doc)
        urls == [i \in 1..Len(servers) |-> Text(Get(servers[i], <<"url">>, EmptyStr))]
        api_names == {ServerApiName(urls[i]) : i \in {j \in 1..Len(servers) : urls[j] # <<>>}}
                        \ {<<>>}
    IN IF \E i \in 1..Len(servers) : ~IsDict(servers[i])
       THEN [name |-> NoName, raised |-> TRUE]
       ELSE IF api_names = {} THEN [name |-> NoName, raised |-> FALSE]
       ELSE [name |-> CHOOSE n \in api_names : \A m \in api_names \ {n} : Before(n, m),
             raised |-> FALSE]

(***************************************************************************)
(* Paths, operations and responses                                         *)
(***************************************************************************)

\* method.upper()
UpperSym(c) ==
    CASE c = "get" -> "GET" [] c = "post" -> "POST" [] c = "put" -> "PUT"
      [] c = "delete" -> "DELETE" [] c = "patch" -> "PATCH" [] c = "head" -> "HEAD"
      [] c = "options" -> "OPTIONS" [] c = "trace" -> "TRACE" [] OTHER -> c

\* f"{method.upper()} {path}"
OperationName(method, path) == <<UpperSym(method[1]), " ">> \o path

CoreMethods == {<<"get">>, <<"post">>, <<"put">>, <<"delete">>, <<"patch">>}
AllMethods == CoreMethods \cup {<<"head">>, <<"options">>, <<"trace">>}

\* the pairs without the tests of the method name and of the operation's type
OperationsUnfiltered(doc, methods) ==
    LET paths == Get(doc, <<"paths">>, EmptyDict)[2]
        RECURSIVE all(_)
        all(ps) ==
            IF ps = <<>> THEN <<>>
            ELSE (IF IsDict(ps[1][2])
                  THEN [i \in 1..Len(ps[1][2][2]) |->
                           [path |-> ps[1][1], method |-> ps[1][2][2][i][1],
                            operation |-> ps[1][2][2][i][2]]]
                  ELSE <<>>) \o all(Tail(ps))
    IN all(paths)

\* the (method, operation) pairs the scans over paths look at:
\* isinstance(path_obj, dict), method in [...], isinstance(operation, dict)
Operations(doc, methods) ==
    LET paths == Get(doc, <<"paths">>, EmptyDict)[2]
        RECURSIVE ofPath(_, _)
        ofPath(path, items) ==
            IF items = <<>> THEN <<>>
            ELSE (IF items[1][1] \in methods /\ IsDict(items[1][2])
                  THEN <<[path |-> path, method |-> items[1][1], operation |-> items[1][2]]>>
                  ELSE <<>>) \o ofPath(path, Tail(items))
        RECURSIVE all(_)
        all(ps) ==
            IF ps = <<>> THEN <<>>
            ELSE (IF IsDict(ps[1][2]) THEN ofPath(ps[1][1], ps[1][2][2]) ELSE <<>>) \o all(Tail(ps))
    IN all(paths)

ErrorInfoRef == <<"#/", "components", "/", "schemas", "/", "ErrorInfo">>

\* _resolve_reference
ResolveReference(ref, spec) ==
    LET path_parts == Split(Tail(ref), "/")
        RECURSIVE walk(_, _)
        walk(current, parts) ==
            IF parts = <<>> THEN (IF IsDict(current) THEN current ELSE EmptyDict)
            ELSE IF IsDict(current) /\ Has(current, parts[1])
                 THEN walk(Item(current, parts[1]), Tail(parts))
            ELSE EmptyDict
    IN IF ~StartsWith(ref, <<"#/">>) THEN EmptyDict ELSE walk(spec, path_parts)

\* the depth of recursion at which the interpreter raises RecursionError
RecursionLimit == 4

ShouldReference(status_code, operation_name) ==
    Issue("Medium", "Error Responses",
          <<"Error response ">> \o status_code \o <<" should reference ErrorInfo schema">>,
          operation_name \o <<".responses.">> \o status_code)

\* _validate_error_response, the definition in force (the second one); spec is self.api_spec
RECURSIVE ValidateErrorResponse(_, _, _, _, _)
ValidateErrorResponse(response, status_code, operation_name, spec, depth) ==
    LET loc == operation_name \o <<".responses.">> \o status_code
        content == Get(response, <<"content">>, EmptyDict)
        schema == Get(Get(content, <<"application/json">>, EmptyDict), <<"schema">>, EmptyDict)
    IN IF depth > RecursionLimit THEN Raised(<<>>)
       ELSE IF Has(response, <<"$ref">>)
       THEN LET ref_path == Text(Item(response, <<"$ref">>))
                resolved_response == ResolveReference(ref_path, spec)
            IN IF Truthy(resolved_response)
               THEN ValidateErrorResponse(resolved_response, status_code, operation_name,
                                          spec, depth + 1)
               ELSE Done(<<Issue("Critical", "Error Responses",
                                 <<"Cannot resolve response reference: ">> \o ref_path, loc)>>)
       ELSE IF ~Has(content, <<"application/json">>)
       THEN Done(<<Issue("Medium", "Error Responses",
                         <<"Error response ">> \o status_code
                             \o <<" should have application/json content">>, loc)>>)
       ELSE IF ~IsDict(schema) THEN Done(<<>>)
       ELSE IF Has(schema, <<"$ref">>)
       THEN When(~Contains(Text(Item(schema, <<"$ref">>)), ErrorInfoRef),
                 ShouldReference(status_code, operation_name))
       ELSE IF Has(schema, <<"allOf">>)
       THEN LET all_of_items == Item(schema, <<"allOf">>)[2]
            IN When(~\E i \in 1..Len(all_of_items) :
                        /\ IsDict(all_of_items[i])
                        /\ Has(all_of_items[i], <<"$ref">>)
                        /\ Contains(Text(Item(all_of_items[i], <<"$ref">>)), ErrorInfoRef),
                    ShouldReference(status_code, operation_name))
       ELSE Done(<<ShouldReference(status_code, operation_name)>>)

SuccessCodes == {<<"200">>, <<"201">>, <<"202">>, <<"204">>}
ErrorCodes == << <<"400">>, <<"401">>, <<"403">>, <<"404">> >>

\* _validate_responses
ValidateResponses(responses, operation_name, spec) ==
    Then(When(~\E code \in SuccessCodes : Has(responses, code),
              Issue("Medium", "Responses", <<"No success response (2xx) defined">>,
                    operation_name \o <<".responses">>)),
         ForEach([i \in 1..Len(ErrorCodes) |->
            IF Has(responses, ErrorCodes[i]) /\ IsDict(Item(responses, ErrorCodes[i]))
            THEN ValidateErrorResponse(Item(responses, ErrorCodes[i]), ErrorCodes[i],
                                       operation_name, spec, 1)
            ELSE Done(<<>>)]))

\* _validate_operation_security
ValidateOperationSecurity(operation, operation_name) ==
    LET security == Get(operation, <<"security">>, PNone)
        reqs == security[2]
        is_callback == \/ Contains(Lower(operation_name), <<"callback", "s">>)
                       \/ Contains(Lower(operation_name), <<"notification">>)
        has_notifications_bearer_auth ==
            \E i \in 1..Len(reqs) : IsDict(reqs[i]) /\ Truthy(reqs[i])
                                    /\ Has(reqs[i], <<"notificationsBearerAuth">>)
        has_empty_security == \E i \in 1..Len(reqs) : IsDict(reqs[i]) /\ ~Truthy(reqs[i])
    IN IF is_callback
       THEN IF security = PNone
            THEN Done(<<Issue("Critical", "Operation Security",
                              <<"Callback operation must have security requirements with notificationsBearerAuth: ">>
                                  \o operation_name,
                              operation_name \o <<".security">>)>>)
            ELSE Then(When(~has_notifications_bearer_auth,
                           Issue("Critical", "Operation Security",
                                 <<"Callback operation must include notificationsBearerAuth: ">>
                                     \o operation_name,
                                 operation_name \o <<".security">>)),
                      When(has_empty_security /\ ~has_notifications_bearer_auth,
                           Issue("Critical", "Operation Security",
                                 <<"Callback operation cannot have only empty security, must include notificationsBearerAuth: ">>
                                     \o operation_name,
                                 operation_name \o <<".security">>)))
       ELSE When(Truthy(security)
                    /\ ~\E i \in 1..Len(reqs) : IsDict(reqs[i]) /\ Has(reqs[i], <<"openId">>),
                 Issue("Medium", "Operation Security",
                       <<"Operation should use 'openId' security scheme: ">> \o operation_name,
                       operation_name \o <<".security">>))

\* _validate_operation, for an operation that is a mapping
ValidateOperation(operation, operation_name, spec) ==
    LET responses == Get(operation, <<"responses">>, EmptyDict)
    IN ForEach(<<
        When(~Has(operation, <<"operationId">>),
             Issue("Critical", "Operation", <<"Missing operationId">>, operation_name)),
        When(~Has(operation, <<"summary">>),
             Issue("Medium", "Operation", <<"Missing summary">>, operation_name)),
        When(~Has(operation, <<"description">>),
             Issue("Low", "Operation", <<"Missing description">>, operation_name)),
        IF ~Truthy(responses)
        THEN Done(<<Issue("Critical", "Operation", <<"No responses defined">>, operation_name)>>)
        ELSE ValidateResponses(responses, operation_name, spec),
        When(Get(operation, <<"security">>, PNone) = PNone
                /\ operation_name[1] \in {"POST", "PUT", "DELETE"},
             Issue("Medium", "Operation",
                   <<"Consider adding security requirements for modifying operations">>,
                   operation_name)),
        ValidateOperationSecurity(operation, operation_name) >>)

\* _validate_paths
ValidatePaths(doc, spec) ==
    IF ~Truthy(Get(doc, <<"paths">>, EmptyDict))
    THEN Done(<<Issue("Critical", "Paths", <<"No paths defined">>, <<>>)>>)
    ELSE LET ops == Operations(doc, AllMethods)
         IN ForEach([i \in 1..Len(ops) |->
                ValidateOperation(ops[i].operation,
                                  OperationName(ops[i].method, ops[i].path), spec)])

(***************************************************************************)
(* API type detection                                                      *)
(***************************************************************************)

REGULAR == "Regular API"
IMPLICIT_SUBSCRIPTION == "Implicit Subscription API"
EXPLICIT_SUBSCRIPTION == "Explicit Subscription API"
APIType == {REGULAR, IMPLICIT_SUBSCRIPTION, EXPLICIT_SUBSCRIPTION}

\* the outcome of a call that raised instead of returning a value
RAISED == "raised"

\* str(v)
RECURSIVE Render(_)
Render(v) ==
    LET RECURSIVE items(_)
        items(xs) ==
            IF xs = <<>> THEN <<>>
            ELSE (IF IsDict(v) THEN <<"'">> \o xs[1][1] \o <<"': ">> \o Render(xs[1][2])
                  ELSE Render(xs[1]))
                 \o (IF Len(xs) > 1 THEN <<", ">> ELSE <<>>) \o items(Tail(xs))
    IN IF IsDict(v) THEN <<"{">> \o items(v[2]) \o <<"}">>
       ELSE IF IsList(v) THEN <<"[">> \o items(v[2]) \o <<"]">>
       ELSE IF IsStr(v) THEN <<"'">> \o v[2] \o <<"'">>
       ELSE <<"None">>

\* subscription_patterns without its second entry
SubscriptionPatternsPlural == {<<"/", "subscription", "s">>}

SubscriptionPatterns == {<<"/", "subscription", "s">>, <<"/", "subscription">>}
ResponseKeywords == {<<"webhook">>, <<"event">>, <<"notification">>, <<"callback">>}
\* the keywords of the schema names without 'event'
SchemaKeywordsNoEvent == {<<"subscription">>, <<"webhook">>, <<"notification">>}

SchemaKeywords == {<<"subscription">>, <<"webhook">>, <<"event">>, <<"notification">>}

\* the scan of one operation's responses for event patterns: "hit", "none" or RAISED
ResponsesHaveEventPattern(operation) ==
    LET responses == Get(operation, <<"responses">>, EmptyDict)
        hit(response) ==
            /\ IsDict(response)
            /\ LET content == Get(response, <<"content">>, EmptyDict)[2]
               IN \E i \in 1..Len(content) :
                     /\ IsDict(content[i][2])
                     /\ \E keyword \in ResponseKeywords :
                           Contains(Lower(Render(Get(content[i][2], <<"schema">>, EmptyDict))),
                                    keyword)
    IN IF ~IsDict(responses) THEN RAISED
       ELSE IF \E i \in 1..Len(responses[2]) : hit(responses[2][i][2]) THEN "hit"
       ELSE "none"

\* _detect_api_type: one of the three types, or RAISED where the code raises
DetectApiType(doc) ==
    LET paths == Get(doc, <<"paths">>, EmptyDict)
        components == Get(doc, <<"components">>, EmptyDict)
        schemas == Get(components, <<"schemas">>, EmptyDict)
        ops == Operations(doc, CoreMethods)
        RECURSIVE scan(_)
        \* the loop over operations: IMPLICIT_SUBSCRIPTION, RAISED or "none"
        scan(i) ==
            IF i > Len(ops) THEN "none"
            ELSE IF IsDict(ops[i].operation) /\ Has(ops[i].operation, <<"callback", "s">>)
                 THEN IMPLICIT_SUBSCRIPTION
            ELSE IF ~IsDict(ops[i].operation) THEN RAISED
            ELSE LET hit == ResponsesHaveEventPattern(ops[i].operation)
                 IN IF hit = RAISED THEN RAISED
                    ELSE IF hit = "hit" THEN IMPLICIT_SUBSCRIPTION
                    ELSE scan(i + 1)
        RECURSIVE names(_)
        \* the loop over schema names: the first name with a keyword decides
        names(i) ==
            IF i > Len(schemas[2]) THEN REGULAR
            ELSE LET schema_name_lower == Lower(schemas[2][i][1])
                 IN IF \E keyword \in SchemaKeywords : Contains(schema_name_lower, keyword)
                    THEN IF Contains(schema_name_lower, <<"subscription">>)
                         THEN EXPLICIT_SUBSCRIPTION
                         ELSE IMPLICIT_SUBSCRIPTION
                    ELSE names(i + 1)
    IN IF ~IsDict(paths) THEN RAISED
       ELSE IF \E i \in 1..Len(paths[2]) : \E pattern \in SubscriptionPatterns :
                  Contains(Lower(paths[2][i][1]), pattern)
       THEN EXPLICIT_SUBSCRIPTION
       ELSE IF scan(1) # "none" THEN scan(1)
       ELSE IF ~IsDict(components) \/ ~IsDict(schemas) THEN RAISED
       ELSE names(1)

(***************************************************************************)
(* Components and security schemes                                         *)
(***************************************************************************)

\* _validate_error_info_schema
ValidateErrorInfoSchema(error_info_schema) ==
    IF ~IsDict(error_info_schema) THEN Done(<<>>)
    ELSE LET properties == Get(error_info_schema, <<"properties">>, EmptyDict)
             required_properties == << <<"code">>, <<"message">> >>
         IN ForEach([i \in 1..2 |->
                When(~Has(properties, required_properties[i]),
                     Issue("Critical", "ErrorInfo Schema",
                           <<"Missing required property '">> \o required_properties[i] \o <<"'">>,
                           <<"components.schemas.ErrorInfo.properties">>))])

\* x in values, for a list of strings
InList(x, values) == \E i \in 1..Len(values[2]) : values[2][i] = PStr(x)

\* _validate_schemas with required_schemas = ['ErrorInfo']
ValidateSchemasErrorInfoOnly(schemas) ==
    Then(When(~Has(schemas, <<"ErrorInfo">>),
              Issue("Critical", "Components",
                    <<"Missing required '", "ErrorInfo", "' schema">>, <<"components.schemas">>)),
         IF Has(schemas, <<"ErrorInfo">>)
         THEN ValidateErrorInfoSchema(Item(schemas, <<"ErrorInfo">>))
         ELSE Done(<<>>))

\* _validate_schemas
ValidateSchemas(schemas) ==
    LET required_schemas == << <<"ErrorInfo">>, <<"XCorrelator">> >>
    IN ForEach(<<
        ForEach([i \in 1..2 |->
            When(~Has(schemas, required_schemas[i]),
                 Issue("Critical", "Components",
                       <<"Missing required '">> \o required_schemas[i] \o <<"' schema">>,
                       <<"components.schemas">>))]),
        IF Has(schemas, <<"ErrorInfo">>)
        THEN ValidateErrorInfoSchema(Item(schemas, <<"ErrorInfo">>))
        ELSE Done(<<>>),
        ForEach([i \in 1..Len(schemas[2]) |->
            When(/\ IsDict(schemas[2][i][2])
                 /\ Has(schemas[2][i][2], <<"enum">>)
                 /\ InList(<<"IDENTIFIER", "_", "MISMATCH">>, Item(schemas[2][i][2], <<"enum">>)),
                 Issue("Critical", "Error Responses",
                       <<"Forbidden error code 'IDENTIFIER_MISMATCH' found">>,
                       <<"components.schemas.">> \o schemas[2][i][1]))]) >>)

\* _validate_openid_connect_scheme
ValidateOpenidConnectScheme(scheme_def, scheme_name) ==
    LET connect_url == Text(Get(scheme_def, <<"openIdConnectUrl">>, EmptyStr))
        loc == <<"components.securitySchemes.">> \o scheme_name \o <<".openIdConnectUrl">>
    IN IF ~Has(scheme_def, <<"openIdConnectUrl">>)
       THEN Done(<<Issue("Critical", "Security Schemes",
                         <<"OpenID Connect scheme '">> \o scheme_name \o <<"' missing openIdConnectUrl">>,
                         loc)>>)
       ELSE Then(When(~StartsWith(connect_url, <<"https://">>) /\ ~StartsWith(connect_url, <<"http://">>),
                      Issue("Medium", "Security Schemes",
                            <<"OpenID Connect URL should use HTTPS: '">> \o connect_url \o <<"'">>, loc)),
                 When(~Contains(connect_url, <<".well-known/openid-configuration">>),
                      Issue("Medium", "Security Schemes",
                            <<"OpenID Connect URL should point to well-known configuration: '">>
                                \o connect_url \o <<"'">>, loc)))

\* _validate_notifications_bearer_auth_scheme
ValidateNotificationsBearerAuthScheme(scheme_def, scheme_name) ==
    LET at == <<"components.securitySchemes.">> \o scheme_name
    IN ForEach(<<
        When(Get(scheme_def, <<"type">>, PNone) # PStr(<<"http">>),
             Issue("Critical", "Security Schemes",
                   <<"Notifications Bearer Auth scheme '">> \o scheme_name \o <<"' must have type 'http'">>,
                   at \o <<".type">>)),
        When(Get(scheme_def, <<"scheme">>, PNone) # PStr(<<"bearer">>),
             Issue("Critical", "Security Schemes",
                   <<"Notifications Bearer Auth scheme '">> \o scheme_name \o <<"' must have scheme 'bearer'">>,
                   at \o <<".scheme">>)),
        When(~Contains(Text(Get(scheme_def, <<"bearerFormat">>, EmptyStr)), <<"sinkCredential">>),
             Issue("Medium", "Security Schemes",
                   <<"Notifications Bearer Auth scheme '">> \o scheme_name
                       \o <<"' should reference sinkCredential in bearerFormat">>,
                   at \o <<".bearerFormat">>)) >>)

\* _validate_security_schemes_section; spec is self.api_spec
ValidateSecuritySchemesSection(security_schemes, spec) ==
    LET api_type == DetectApiType(spec)
        is_subscription_api == api_type \in {IMPLICIT_SUBSCRIPTION, EXPLICIT_SUBSCRIPTION}
        one(scheme_name, scheme_def) ==
            LET scheme_type == Get(scheme_def, <<"type">>, PNone)
                at == <<"components.securitySchemes.">> \o scheme_name
            IN IF ~IsDict(scheme_def) THEN Done(<<>>)
               ELSE IF scheme_type = PStr(<<"openIdConnect">>)
               THEN Then(ValidateOpenidConnectScheme(scheme_def, scheme_name),
                         When(scheme_name # <<"openId">>,
                              Issue("Medium", "Security Schemes",
                                    <<"OpenID Connect scheme should be named 'openId', found '">>
                                        \o scheme_name \o <<"'">>, at)))
               ELSE IF scheme_type = PStr(<<"http">>) /\ scheme_name = <<"notificationsBearerAuth">>
               THEN ValidateNotificationsBearerAuthScheme(scheme_def, scheme_name)
               ELSE IF scheme_type = PStr(<<"oauth2">>)
               THEN Done(<<Issue("Critical", "Security Schemes",
                                 <<"Use 'openIdConnect' type instead of 'oauth2' for scheme '">>
                                     \o scheme_name \o <<"'">>, at \o <<".type">>)>>)
               ELSE When(scheme_type # PStr(<<"http">>),
                         Issue("Medium", "Security Schemes",
                               <<"Unexpected security scheme type '">> \o Text(scheme_type)
                                   \o <<"' for '">> \o scheme_name \o <<"'">>, at \o <<".type">>))
    IN IF api_type = RAISED THEN Raised(<<>>)
       ELSE ForEach(<<
            When(~Has(security_schemes, <<"openId">>),
                 Issue("Critical", "Security Schemes",
                       <<"Missing required 'openId' security scheme">>,
                       <<"components.securitySchemes">>)),
            When(is_subscription_api /\ ~Has(security_schemes, <<"notificationsBearerAuth">>),
                 Issue("Critical", "Security Schemes",
                       <<"Subscription APIs must include 'notificationsBearerAuth' security scheme">>,
                       <<"components.securitySchemes">>)),
            ForEach([i \in 1..Len(security_schemes[2]) |->
                one(security_schemes[2][i][1], security_schemes[2][i][2])]) >>)

\* _validate_components; spec is self.api_spec once the method has stored its argument
ValidateComponents(doc, spec) ==
    LET components == Get(doc, <<"components">>, EmptyDict)
    IN IF ~Truthy(components)
       THEN Done(<<Issue("Medium", "Components", <<"No components defined">>, <<>>)>>)
       ELSE Then(ValidateSchemas(Get(components, <<"schemas">>, EmptyDict)),
                 ValidateSecuritySchemesSection(Get(components, <<"securitySchemes">>, EmptyDict),
                                                spec))

\* _validate_security_schemes
ValidateSecuritySchemes(doc) ==
    LET security == Get(doc, <<"security">>, PList(<<>>))[2]
        security_schemes == Get(Get(doc, <<"components">>, EmptyDict), <<"securitySchemes">>, EmptyDict)
    IN ForEach([i \in 1..Len(security) |->
          IF ~IsDict(security[i]) THEN Done(<<>>)
          ELSE ForEach([j \in 1..Len(security[i][2]) |->
                  When(~Has(security_schemes, security[i][2][j][1]),
                       Issue("Critical", "Security Schemes",
                             <<"Undefined security scheme '">> \o security[i][2][j][1]
                                 \o <<"' referenced">>,
                             <<"security">>))])])

(***************************************************************************)
(* Lifecycle stage, naming and compliance checks                           *)
(***************************************************************************)

\* the release-side server URL issue filed as a recommendation
VwipInReleaseMedium ==
    Issue("Medium", "Server URL",
          <<"Work-in-progress server URL ('vwip') cannot be used in release">>,
          <<"servers[0].url">>)

\* the issue both copies of the release-side server URL test append
VwipInRelease ==
    Issue("Critical", "Server URL",
          <<"Work-in-progress server URL ('vwip') cannot be used in release">>,
          <<"servers[0].url">>)

\* servers[0].get('url', ''), raising on an entry that is no mapping
FirstServerUrl(doc) == Text(Get(Servers(doc)[1], <<"url">>, EmptyStr))

\* _check_work_in_progress_version
CheckWorkInProgressVersion(doc, review) ==
    LET version == Get(Get(doc, <<"info">>, EmptyDict), <<"version">>, EmptyStr)
        has_servers == Servers(doc) # <<>>
        vwip == Contains(FirstServerUrl(doc), <<"vwip">>)
    IN IF has_servers /\ ~IsDict(Servers(doc)[1])
       THEN Raised(IF review = "wip"
                   THEN IF version # PStr(<<"wip">>)
                        THEN <<Issue("Medium", "Version",
                                     <<"WIP review expects version 'wip', found: '">>
                                         \o Text(version) \o <<"'">>,
                                     <<"info.version">>)>>
                        ELSE <<>>
                   ELSE IF version = PStr(<<"wip">>)
                        THEN <<Issue("Critical", "Version",
                                     <<"Work-in-progress version 'wip' cannot be released">>,
                                     <<"info.version">>)>>
                        ELSE <<>>)
       ELSE Then(IF review = "wip"
                 THEN Then(When(version # PStr(<<"wip">>),
                                Issue("Medium", "Version",
                                      <<"WIP review expects version 'wip', found: '">>
                                          \o Text(version) \o <<"'">>,
                                      <<"info.version">>)),
                           When(has_servers /\ ~vwip,
                                Issue("Medium", "Server URL",
                                      <<"WIP review expects server URL to contain 'vwip'">>,
                                      <<"servers[0].url">>)))
                 ELSE Then(When(version = PStr(<<"wip">>),
                                Issue("Critical", "Version",
                                      <<"Work-in-progress version 'wip' cannot be released">>,
                                      <<"info.version">>)),
                           When(has_servers /\ vwip, VwipInRelease)),
                 \* the test after the if/else, run for every review type
                 When(has_servers /\ vwip, VwipInRelease))

\* _check_updated_generic401
CheckUpdatedGeneric401(doc) ==
    LET schemas == Get(Get(doc, <<"components">>, EmptyDict), <<"schemas">>, EmptyDict)[2]
    IN ForEach([i \in 1..Len(schemas) |->
          When(/\ IsDict(schemas[i][2]) /\ Has(schemas[i][2], <<"enum">>)
               /\ InList(<<"AUTHENTICATION", "_", "REQUIRED">>, Item(schemas[i][2], <<"enum">>)),
               Issue("Medium", "Error Codes",
                     <<"Use 'UNAUTHENTICATED' instead of 'AUTHENTICATION_REQUIRED'">>,
                     <<"components.schemas.">> \o schemas[i][1]))])

\* re.match(r'^[a-z0-9-]+:[a-z0-9-]+(?::[a-z0-9-]+)?$', scope_name)
IsScopeName(scope_name) ==
    LET parts == Split(scope_name, ":")
    IN Len(parts) \in {2, 3} /\ \A i \in 1..Len(parts) : IsKebab(parts[i])

\* _check_scope_naming_patterns
CheckScopeNamingPatterns(doc) ==
    LET ops == Operations(doc, CoreMethods)
        ofReq(op, req) ==
            IF ~IsDict(req) THEN Done(<<>>)
            ELSE ForEach([j \in 1..Len(req[2]) |->
                    IF ~IsList(req[2][j][2]) THEN Done(<<>>)
                    ELSE ForEach([k \in 1..Len(req[2][j][2][2]) |->
                            When(~IsScopeName(Text(req[2][j][2][2][k])),
                                 Issue("Medium", "Scope Naming",
                                       <<"Scope name should follow pattern 'api-name:[resource:]action': '">>
                                           \o Text(req[2][j][2][2][k]) \o <<"'">>,
                                       OperationName(op.method, op.path) \o <<".security">>))])])
    IN ForEach([i \in 1..Len(ops) |->
          LET security == Get(ops[i].operation, <<"security">>, PList(<<>>))[2]
          IN ForEach([r \in 1..Len(security) |-> ofReq(ops[i], security[r])])])

\* re.sub(r'[^a-z0-9]+', '-', title).strip('-'), for a lower-cased title
TitleAsFilename(title) ==
    LET RECURSIVE sub(_, _)
        sub(t, dashed) ==
            IF t = <<>> THEN <<>>
            ELSE IF t[1] \in KebabSym \ {"-"} THEN <<t[1]>> \o sub(Tail(t), FALSE)
            ELSE IF dashed THEN sub(Tail(t), TRUE)
            ELSE <<"-">> \o sub(Tail(t), TRUE)
        RECURSIVE strip(_)
        strip(t) == IF t # <<>> /\ t[1] = "-" THEN strip(Tail(t))
                    ELSE IF t # <<>> /\ t[Len(t)] = "-" THEN strip(SubSeq(t, 1, Len(t) - 1))
                    ELSE t
    IN strip(sub(title, FALSE))

\* api_name.replace('-', ' ')
DashesToSpaces(name) == [i \in 1..Len(name) |-> IF name[i] = "-" THEN " " ELSE name[i]]

\* _check_filename_consistency; filename is Path(file_path).stem
CheckFilenameConsistency(filename, doc) ==
    LET extracted == ExtractApiNameFromServers(doc)
        api_name == extracted.name
        title == Text(Get(Get(doc, <<"info">>, EmptyDict), <<"title">>, EmptyStr))
        words == Split(api_name, "-")
        kebab == When(~IsKebab(filename),
                      Issue("Critical", "File Naming",
                            <<"Filename should use kebab-case: '">> \o filename \o <<"'">>,
                            filename \o <<".yaml">>))
    IN IF extracted.raised THEN Raised(kebab.issues)
       ELSE IF api_name # NoName
       THEN ForEach(<<
            kebab,
            When(filename # api_name,
                 Issue("Critical", "File Naming",
                       <<"Filename '">> \o filename \o <<"' doesn't match api-name '">>
                           \o api_name \o <<"' from servers URL">>,
                       filename \o <<".yaml">>)),
            When(/\ title # <<>>
                 /\ ~Contains(Lower(title), DashesToSpaces(api_name))
                 /\ ~\E i \in 1..Len(words) :
                        /\ StrLen(words[i]) > 3
                        /\ Contains(Lower(title), words[i]),
                 Issue("Low", "API Consistency",
                       <<"API title '">> \o title \o <<"' may not align with api-name '">>
                           \o api_name \o <<"'">>,
                       <<"info.title">>)) >>)
       ELSE ForEach(<<
            kebab,
            Done(<<Issue("Medium", "Server Configuration",
                         <<"Cannot extract api-name from servers[*].url for filename validation">>,
                         <<"servers">>)>>),
            When(/\ title # <<>>
                 /\ TitleAsFilename(Lower(title)) # <<>>
                 /\ filename # TitleAsFilename(Lower(title)),
                 Issue("Info", "File Naming",
                       <<"Filename '">> \o filename \o <<"' doesn't match title pattern '">>
                           \o TitleAsFilename(Lower(title)) \o <<"'">>,
                       filename \o <<".yaml">>)) >>)

\* _check_mandatory_error_responses
CheckMandatoryErrorResponses(doc) ==
    LET ops == Operations(doc, CoreMethods)
    IN ForEach([i \in 1..Len(ops) |->
          When(~Has(Get(ops[i].operation, <<"responses">>, EmptyDict), <<"400">>),
               Issue("Medium", "Error Responses", <<"Missing 400 (Bad Request) response">>,
                     OperationName(ops[i].method, ops[i].path) \o <<".responses">>))])

\* _check_server_url_format
CheckServerUrlFormat(doc) ==
    ForEach([i \in 1..Len(Servers(doc)) |->
        LET url == Text(Get(Servers(doc)[i], <<"url">>, EmptyStr))
        IN When(/\ IsDict(Servers(doc)[i])
                /\ url # <<>>
                /\ ~StartsWith(url, <<"{apiRoot}">>) /\ ~StartsWith(url, <<"https://">>),
                Issue("Medium", "Server URL",
                      <<"Server URL should use HTTPS or template variable: '">> \o url \o <<"'">>,
                      <<"servers[">> \o Dec(i - 1) \o <<"].url">>))])

XCorrelatorPattern == <<"^\\w{8}-\\w{4}-4\\w{3}-[89aAbB]\\w{3}-\\w{12}$">>

\* _check_commonalities_schema_compliance
CheckCommonalitiesSchemaCompliance(doc) ==
    LET parameters == Get(Get(doc, <<"components">>, EmptyDict), <<"parameters">>, EmptyDict)
        x_correlator == Get(parameters, <<"X-Correlator">>, PNone)
    IN When(/\ Has(parameters, <<"X-Correlator">>)
            /\ IsDict(x_correlator)
            /\ Get(Get(x_correlator, <<"schema">>, EmptyDict), <<"pattern">>, PNone)
                  # PStr(XCorrelatorPattern),
            Issue("Medium", "XCorrelator Pattern",
                  <<"XCorrelator pattern should follow Commonalities 0.6 specification">>,
                  <<"components.parameters.X-Correlator.schema.pattern">>))

\* _check_event_subscription_compliance: the validator has no _current_api_type attribute,
\* so the type is detected again from the argument
CheckEventSubscriptionCompliance(doc) ==
    LET api_type == DetectApiType(doc)
        names == Keys(Get(Get(doc, <<"components">>, EmptyDict), <<"schemas">>, EmptyDict))
        event_schemas_found == \E i \in 1..Len(names) : Contains(Lower(names[i]), <<"event">>)
        subscription_schemas_found ==
            \E i \in 1..Len(names) : Contains(Lower(names[i]), <<"subscription">>)
    IN IF api_type = RAISED THEN Raised(<<>>)
       ELSE IF api_type = REGULAR THEN Done(<<>>)
       ELSE Then(When(api_type = EXPLICIT_SUBSCRIPTION /\ ~subscription_schemas_found,
                      Issue("Medium", "Subscription Schemas",
                            <<"Explicit subscription API should define subscription-related schemas">>,
                            <<"components.schemas">>)),
                 When(~event_schemas_found,
                      Issue("Low", "Event Schemas",
                            <<"Subscription API should define event-related schemas">>,
                            <<"components.schemas">>)))

\* _check_explicit_subscription_compliance
CheckExplicitSubscriptionCompliance(doc) ==
    LET paths == Get(doc, <<"paths">>, EmptyDict)[2]
        subscription_paths ==
            SelectSeq(paths, LAMBDA p : Contains(Lower(p[1]), <<"subscription">>))
    IN IF subscription_paths = <<>>
       THEN Done(<<Issue("Critical", "Subscription Endpoints",
                         <<"Explicit subscription API must have subscription endpoints">>,
                         <<"paths">>)>>)
       ELSE ForEach([i \in 1..Len(subscription_paths) |->
              When(/\ IsDict(subscription_paths[i][2])
                   /\ ~\E j \in 1..Len(subscription_paths[i][2][2]) :
                          subscription_paths[i][2][2][j][1]
                              \in {<<"get">>, <<"post">>, <<"put">>, <<"delete">>},
                   Issue("Medium", "Subscription Operations",
                         <<"Subscription path '">> \o subscription_paths[i][1]
                             \o <<"' has no operations defined">>,
                         <<"paths.">> \o subscription_paths[i][1]))])

\* _check_implicit_subscription_compliance
CheckImplicitSubscriptionCompliance(doc) ==
    LET paths == Get(doc, <<"paths">>, EmptyDict)[2]
    IN When(~\E i \in 1..Len(paths) :
                /\ IsDict(paths[i][2])
                /\ \E j \in 1..Len(paths[i][2][2]) :
                      /\ IsDict(paths[i][2][2][j][2])
                      /\ Has(paths[i][2][2][j][2], <<"callback", "s">>),
            Issue("Medium", "Implicit Subscription",
                  <<"Implicit subscription API should define callbacks">>, <<"paths">>))

\* _get_manual_checks_for_type, as the number of manual checks listed
GetManualChecksForType(api_type) ==
    IF api_type = EXPLICIT_SUBSCRIPTION THEN 11
    ELSE IF api_type = IMPLICIT_SUBSCRIPTION THEN 10
    ELSE 7

(***************************************************************************)
(* validate_api_file                                                       *)
(***************************************************************************)

ImplementedVersion == <<"0", ".", "6">>

\* _check_version_mismatch
CheckVersionMismatch(doc, expected_version) ==
    LET declared_version == Get(Get(doc, <<"info">>, EmptyDict), <<"x-camara-commonalities">>, PNone)
    IN IF expected_version = ImplementedVersion THEN Done(<<>>)
       ELSE Then(Done(<<Issue("Info", "Version Mismatch",
                              <<"Validating with v">> \o ImplementedVersion \o <<" rules (requested v">>
                                  \o expected_version \o <<")">>,
                              <<"validator">>)>>),
                 When(declared_version # PNone /\ Text(declared_version) # ImplementedVersion,
                      Issue("Low", "Commonalities Version",
                            <<"API declares commonalities v">> \o Text(declared_version)
                                \o <<" but is being validated against v">> \o ImplementedVersion
                                \o <<" rules">>,
                            <<"info.x-camara-commonalities">>)))

\* the checks validate_api_file calls after type detection, in call order: the names each
\* appends to checks_performed and what it does; spec is self.api_spec during the call
Battery(file, spec, review, expected_version, api_type) ==
    LET doc == file.doc
    IN <<
    [names |-> <<>>, out |-> CheckVersionMismatch(doc, expected_version)],
    [names |-> <<"Info object validation", "Authorization template validation",
                 "Error responses template validation">>,
     out |-> ValidateInfoObject(doc, expected_version)],
    [names |-> <<"External documentation validation">>, out |-> ValidateExternalDocs(doc)],
    [names |-> <<"Servers validation">>, out |-> ValidateServers(doc)],
    [names |-> <<"Paths validation">>, out |-> ValidatePaths(doc, spec)],
    [names |-> <<"Components validation">>, out |-> ValidateComponents(doc, doc)],
    [names |-> <<"Security configuration validation">>, out |-> ValidateSecuritySchemes(doc)],
    [names |-> <<"Work-in-progress version validation">>,
     out |-> CheckWorkInProgressVersion(doc, review)],
    [names |-> <<"Generic 401 error validation (v0.6)">>, out |-> CheckUpdatedGeneric401(doc)],
    [names |-> <<"Scope naming pattern validation">>, out |-> CheckScopeNamingPatterns(doc)],
    [names |-> <<"Filename consistency validation">>,
     out |-> CheckFilenameConsistency(file.stem, doc)],
    [names |-> <<"Mandatory error responses validation">>,
     out |-> CheckMandatoryErrorResponses(doc)],
    [names |-> <<"Server URL format validation">>, out |-> CheckServerUrlFormat(doc)],
    [names |-> <<"Commonalities schema compliance validation">>,
     out |-> CheckCommonalitiesSchemaCompliance(doc)],
    [names |-> <<"Event subscription compliance validation">>,
     out |-> CheckEventSubscriptionCompliance(doc)] >>
    \o (IF api_type = EXPLICIT_SUBSCRIPTION
        THEN <<[names |-> <<"Explicit subscription API compliance validation">>,
                out |-> CheckExplicitSubscriptionCompliance(doc)]>>
        ELSE IF api_type = IMPLICIT_SUBSCRIPTION
        THEN <<[names |-> <<"Implicit subscription API compliance validation">>,
                out |-> CheckImplicitSubscriptionCompliance(doc)]>>
        ELSE <<>>)

\* the calls of a battery run one after the other until one raises
RECURSIVE RunBattery(_)
RunBattery(steps) ==
    IF steps = <<>> THEN [issues |-> <<>>, checks |-> <<>>, raised |-> FALSE]
    ELSE IF steps[1].out.raised
         THEN [issues |-> steps[1].out.issues, checks |-> steps[1].names, raised |-> TRUE]
    ELSE LET rest == RunBattery(Tail(steps))
         IN [issues |-> steps[1].out.issues \o rest.issues,
             checks |-> steps[1].names \o rest.checks,
             raised |-> rest.raised]

ValidationError == Issue("Critical", "Validation Error", <<"Unexpected error">>, <<>>)
\* the YAML issue with the severity of a finding that does not block
YamlSyntaxMedium == Issue("Medium", "YAML Syntax", <<"YAML parsing error">>, <<>>)

YamlSyntax == Issue("Critical", "YAML Syntax", <<"YAML parsing error">>, <<>>)

\* ValidationResult(file_path=...) with the first entry of checks_performed
NewResult(file) ==
    [file_path |-> file.stem, api_name |-> <<>>, version |-> <<>>, api_type |-> REGULAR,
     issues |-> <<>>, checks_performed |-> <<"CAMARA Commonalities validation">>,
     manual_checks_needed |-> 0]

\* validate_api_file: the ValidationResult it returns
ValidateApiFile(file, review, expected_version) ==
    LET result == NewResult(file)
        doc == file.doc
        extracted == ExtractApiNameFromServers(doc)
        fallback == IF extracted.name = NoName
                    THEN <<Issue("Medium", "Server Configuration",
                                 <<"Cannot extract api-name from servers[*].url">>, <<"servers">>)>>
                    ELSE <<>>
        api_type == DetectApiType(doc)
        named == [result EXCEPT
                    !.api_name = IF extracted.name = NoName THEN file.stem ELSE extracted.name,
                    !.version = Text(Get(Get(doc, <<"info">>, EmptyDict), <<"version">>,
                                         PStr(<<"unknown">>))),
                    !.issues = fallback]
        run == RunBattery(Battery(file, doc, review, expected_version, api_type))
    IN IF file.load = "yaml_error" THEN [result EXCEPT !.issues = <<YamlSyntax>>]
       ELSE IF file.load = "missing" THEN [result EXCEPT !.issues = <<ValidationError>>]
       ELSE IF ~IsDict(doc) THEN [result EXCEPT !.issues = <<ValidationError>>]
       ELSE IF extracted.raised THEN [result EXCEPT !.issues = <<ValidationError>>]
       ELSE IF api_type = RAISED THEN [named EXCEPT !.issues = fallback \o <<ValidationError>>]
       ELSE [named EXCEPT
                !.api_type = api_type,
                !.issues = fallback \o run.issues
                              \o (IF run.raised THEN <<ValidationError>> ELSE <<>>),
                !.checks_performed = result.checks_performed
                              \o <<"API type detection: " \o api_type>> \o run.checks,
                !.manual_checks_needed = IF run.raised THEN 0
                                         ELSE GetManualChecksForType(api_type)]

(***************************************************************************)
(* The specification files of the validation runs                          *)
(***************************************************************************)

\* the dict d with d[k] = v
With(d, k, v) ==
    IF Has(d, k)
    THEN PDict([i \in 1..Len(d[2]) |-> IF d[2][i][1] = k THEN <<k, v>> ELSE d[2][i]])
    ELSE PDict(Append(d[2], <<k, v>>))

\* the dict d without the key k
Without(d, k) == PDict(SelectSeq(d[2], LAMBDA kv : kv[1] # k))

\* the dict d with d[k1][k2] = v
With2(d, k1, k2, v) == With(d, k1, With(Get(d, k1, EmptyDict), k2, v))

TemplateText == <<
    "#", " ", "Authorization", " ", "and", " ", "authentication", "\n", "\n",
    "Camara Security and Interoperability Profile", " ",
    "Identity and Consent Management", " ",
    "github.com/camaraproject/IdentityAndConsentManagement", "\n",
    "authorization flows to be used will be agreed upon during the onboarding process", " ",
    "three-legged access tokens is mandatory", " ", "privacy regulations", "\n", "\n",
    "#", " ", "Additional", " ", "CAMARA", " ", "error", " ", "responses", "\n", "\n",
    "not exhaustive", " ", "CAMARA API Design Guide", " ", "CAMARA", "_", "common.yaml", " ",
    "Commonalities Release", " ", "API Readiness Checklist", " ",
    "501 - NOT", "_", "IMPLEMENTED" >>

ItemStatus == <<"item", "-", "status">>
ServerV1 == PDict(<< <<<<"url">>, PStr(<<"{apiRoot}", "/">> \o ItemStatus \o <<"/", "v", "1">>)>> >>)
ServerVwip == PDict(<< <<<<"url">>, PStr(<<"{apiRoot}", "/">> \o ItemStatus \o <<"/", "vwip">>)>> >>)

ErrorInfoSchema ==
    PDict(<< <<<<"type">>, PStr(<<"object">>)>>,
             <<<<"properties">>,
               PDict(<< <<<<"code">>, PDict(<< <<<<"type">>, PStr(<<"string">>)>> >>)>>,
                        <<<<"message">>, PDict(<< <<<<"type">>, PStr(<<"string">>)>> >>)>> >>)>> >>)

XCorrelatorSchema == PDict(<< <<<<"type">>, PStr(<<"string">>)>> >>)

Response400 ==
    PDict(<< <<<<"description">>, PStr(<<"Bad request">>)>>,
             <<<<"content">>,
               PDict(<< <<<<"application/json">>,
                          PDict(<< <<<<"schema">>,
                                     PDict(<< <<<<"$ref">>,
                                                PStr(<<"#/", "components", "/", "schemas", "/",
                                                       "ErrorInfo">>)>> >>)>> >>)>> >>)>> >>)

GetItems ==
    PDict(<< <<<<"operationId">>, PStr(<<"getItems">>)>>,
             <<<<"summary">>, PStr(<<"List the items">>)>>,
             <<<<"responses">>,
               PDict(<< <<<<"200">>, PDict(<< <<<<"description">>, PStr(<<"OK">>)>> >>)>>,
                        <<<<"400">>, Response400>> >>)>> >>)

OpenIdScheme ==
    PDict(<< <<<<"type">>, PStr(<<"openIdConnect">>)>>,
             <<<<"openIdConnectUrl">>,
               PStr(<<"https://", "example.com/", ".well-known/openid-configuration">>)>> >>)

\* the minimal compliant document as the specification lists it
ListedDoc ==
    PDict(<<
        <<<<"openapi">>, PStr(<<"3.0.3">>)>>,
        <<<<"info">>,
          PDict(<< <<<<"title">>, PStr(<<"Item", " ", "Status">>)>>,
                   <<<<"version">>, PStr(<<"1", ".", "0", ".", "0">>)>>,
                   <<<<"description">>, PStr(TemplateText)>>,
                   <<<<"license">>,
                     PDict(<< <<<<"name">>, PStr(<<"Apache 2.0">>)>>,
                              <<<<"url">>,
                                PStr(<<"https://", "www.apache.org/licenses/LICENSE-2.0.html">>)>> >>)>> >>)>>,
        <<<<"servers">>, PList(<<ServerV1>>)>>,
        <<<<"paths">>, PDict(<< <<<<"/", "items">>, PDict(<< <<<<"get">>, GetItems>> >>)>> >>)>>,
        <<<<"components">>,
          PDict(<< <<<<"schemas">>,
                     PDict(<< <<<<"ErrorInfo">>, ErrorInfoSchema>>,
                              <<<<"XCorrelator">>, XCorrelatorSchema>> >>)>>,
                   <<<<"securitySchemes">>, PDict(<< <<<<"openId">>, OpenIdScheme>> >>)>> >>)>> >>)

ExternalDocs ==
    PDict(<< <<<<"description">>, PStr(<<"Product documentation">>)>>,
             <<<<"url">>, PStr(<<"https://", "github.com/camaraproject/">>)>> >>)

\* the listed document with the externalDocs object the battery requires
CompliantDoc == With(ListedDoc, <<"externalDocs">>, ExternalDocs)

NoSchemas(doc) == With2(doc, <<"components">>, <<"schemas">>, EmptyDict)
WipVersion(doc) == With2(doc, <<"info">>, <<"version">>, PStr(<<"wip">>))
SubscriptionPath(doc) ==
    With2(doc, <<"paths">>, <<"/", "subscription", "s">>, PDict(<< <<<<"post">>, GetItems>> >>))

Loaded(stem, doc) == [stem |-> stem, load |-> "ok", doc |-> doc]

\* the files the validation runs draw from
ApiFiles == <<
    Loaded(ItemStatus, CompliantDoc),
    Loaded(ItemStatus, ListedDoc),
    Loaded(ItemStatus, NoSchemas(CompliantDoc)),
    Loaded(ItemStatus, NoSchemas(ListedDoc)),
    Loaded(ItemStatus, With2(CompliantDoc, <<"components">>, <<"securitySchemes">>,
               PDict(<< <<<<"openId">>, Without(OpenIdScheme, <<"openIdConnectUrl">>)>> >>))),
    Loaded(ItemStatus, With(WipVersion(CompliantDoc), <<"servers">>, PList(<<ServerVwip>>))),
    Loaded(ItemStatus, With(WipVersion(CompliantDoc), <<"servers">>, PList(<<ServerV1, ServerVwip>>))),
    Loaded(ItemStatus, With(WipVersion(CompliantDoc), <<"servers">>, PList(<<ServerVwip, ServerV1>>))),
    Loaded(ItemStatus, WipVersion(CompliantDoc)),
    Loaded(ItemStatus, With(CompliantDoc, <<"servers">>, PList(<<ServerVwip>>))),
    Loaded(ItemStatus, Without(WipVersion(CompliantDoc), <<"servers">>)),
    Loaded(<<"Item", "_", "Status">>, SubscriptionPath(CompliantDoc)),
    Loaded(ItemStatus, With(CompliantDoc, <<"servers">>, PList(<<ServerV1, PStr(<<"oops">>)>>))),
    Loaded(ItemStatus, PList(<<>>)),
    [stem |-> ItemStatus, load |-> "missing", doc |-> PNone],
    [stem |-> ItemStatus, load |-> "yaml_error", doc |-> PNone] >>

ReviewTypes == {"wip", "release-candidate", "public-release"}
ExpectedVersions == {<<"0", ".", "6">>, <<"0", ".", "5">>}

\* the number of validate_api_file calls of a run
MaxRuns == 2

NoFile == 0

(***************************************************************************)
(* Validation runs                                                         *)
(***************************************************************************)

TypeOK ==
    /\ review_type \in ReviewTypes
    /\ api_spec \in 0..Len(ApiFiles)
    /\ Len(results) <= MaxRuns + 1

\* the variables of a run that does not take place
ClsIdle == cls_doc = <<>> /\ cls_first = "" /\ cls_second = ""
MapIdle ==
    /\ map_case = <<>> /\ map_pc = "" /\ all_api_names = <<>> /\ assignments = <<>>
    /\ api_to_test = <<>> /\ test_results = <<>>
NormIdle == norm_in = <<>> /\ norm_out = <<>>
ConIdle == con_files = <<>> /\ con_result = <<>>
MainIdle ==
    /\ main_pc = "" /\ consistency_result = <<>> /\ main_tests = <<>>
    /\ exit_status = <<>>
SumIdle == sum_in = <<>> /\ sum_out = <<>>
RespIdle == resp_case = <<>> /\ resp_out = <<>>
ThrIdle == thr_files = <<>> /\ thr_pc = <<>> /\ thr_local = <<>> /\ thr_seen = <<>>
ChkIdle == chk_case = <<>> /\ chk_out = <<>>
RestIdle == ConIdle /\ MainIdle /\ SumIdle /\ RespIdle /\ ThrIdle /\ ChkIdle

\* CAMARAAPIValidator(commonalities_version, review_type); results = []
Init ==
    /\ review_type \in ReviewTypes
    /\ expected_commonalities_version \in ExpectedVersions
    /\ api_spec = NoFile
    /\ results = <<>>
    /\ ClsIdle /\ MapIdle /\ NormIdle /\ RestIdle

\* result = validator.validate_api_file(api_file); results.append(result)
Validate(f) ==
    /\ Len(results) < MaxRuns
    /\ results' = Append(results, [file |-> f,
                                   result |-> ValidateApiFile(ApiFiles[f], review_type,
                                                              expected_commonalities_version)])
    /\ api_spec' = IF ApiFiles[f].load = "ok" THEN f ELSE api_spec
    /\ UNCHANGED <<review_type, expected_commonalities_version, clsVars, mapVars, normVars,
                 restVars>>

Next == \E f \in 1..Len(ApiFiles) : Validate(f)

Spec == Init /\ [][Next]_vars

(***************************************************************************)
(* Classifier runs                                                         *)
(***************************************************************************)

ClsPathKeys == <<
    <<"/", "items">>,
    <<"/", "Subscription", "s">>,
    <<"/", "items", "/", "subscription">>,
    <<"/", "event", "s">> >>

EventRef == PDict(<< <<<<"$ref">>, PStr(<<"#/", "components", "/", "schemas", "/", "Event">>)>> >>)

\* the path items: a plain operation, one with callbacks, one whose response
\* schema refers to an event, and one beside a summary and a parameter list
ClsPathItems == <<
    PDict(<< <<<<"get">>, GetItems>> >>),
    PDict(<< <<<<"post">>,
               With(GetItems, <<"callback", "s">>,
                    PDict(<< <<<<"onItem">>, PDict(<< <<<<"{$request.body#/sink}">>, EmptyDict>> >>)>> >>))>> >>),
    PDict(<< <<<<"get">>,
               With2(GetItems, <<"responses">>, <<"200">>,
                     PDict(<< <<<<"description">>, PStr(<<"OK">>)>>,
                              <<<<"content">>,
                                PDict(<< <<<<"application/json">>,
                                           PDict(<< <<<<"schema">>, EventRef>> >>)>> >>)>> >>))>> >>),
    PDict(<< <<<<"summary">>, PStr(<<"Item", "s">>)>>,
             <<<<"parameters">>, PList(<<PDict(<< <<<<"name">>, PStr(<<"x-correlator">>)>> >>)>>)>>,
             <<<<"get">>, GetItems>> >>) >>

\* the names under components.schemas, in document order
ClsSchemaNames == <<
    <<>>,
    << <<"ErrorInfo">>, <<"XCorrelator">> >>,
    << <<"ErrorInfo">>, <<"Event">>, <<"Subscription">> >>,
    << <<"Subscription", "Request">>, <<"Webhook">> >>,
    << <<"Item">>, <<"Webhook">> >> >>

ClsCases == (1..Len(ClsPathKeys)) \X (1..Len(ClsPathItems)) \X (1..Len(ClsSchemaNames))

\* the document of a case
ClsDoc(c) ==
    LET names == ClsSchemaNames[c[3]]
    IN With2(With(CompliantDoc, <<"paths">>,
                  PDict(<< <<ClsPathKeys[c[1]], ClsPathItems[c[2]]>> >>)),
             <<"components">>, <<"schemas">>,
             PDict([i \in 1..Len(names) |-> <<names[i], XCorrelatorSchema>>]))

InitClassify ==
    /\ review_type \in ReviewTypes
    /\ expected_commonalities_version = ImplementedVersion
    /\ api_spec = NoFile
    /\ results = <<>>
    /\ cls_doc \in ClsCases
    /\ cls_first = ""
    /\ cls_second = ""
    /\ MapIdle /\ NormIdle /\ RestIdle

\* self._detect_api_type(api_spec)
ClassifyFirst ==
    /\ cls_first = ""
    /\ cls_first' = DetectApiType(ClsDoc(cls_doc))
    /\ UNCHANGED <<valVars, cls_doc, cls_second, mapVars, normVars, restVars>>

\* the validator goes through another file before the document comes again
ValidateBetween(f) ==
    /\ cls_first # "" /\ cls_second = ""
    /\ results = <<>>
    /\ Validate(f)

\* self._detect_api_type(api_spec), on the same document again
ClassifySecond ==
    /\ cls_first # "" /\ cls_second = ""
    /\ cls_second' = DetectApiType(ClsDoc(cls_doc))
    /\ UNCHANGED <<valVars, cls_doc, cls_first, mapVars, normVars, restVars>>

NextClassify ==
    \/ ClassifyFirst
    \/ \E f \in 1..Len(ApiFiles) : ValidateBetween(f)
    \/ ClassifySecond

SpecClassify == InitClassify /\ [][NextClassify]_vars

(***************************************************************************)
(* Test files                                                              *)
(***************************************************************************)

\* the end of the longest run of digits of line that starts at i, i - 1 if none
RECURSIVE DigitsEnd(_, _)
DigitsEnd(line, i) ==
    IF i <= Len(line) /\ line[i] \in Digit THEN DigitsEnd(line, i + 1) ELSE i - 1

\* the end of \d+\.\d+\.\d+ at i, 0 if it does not match there
NumbersEnd(line, i) ==
    LET a == DigitsEnd(line, i)
        b == DigitsEnd(line, a + 2)
        c == DigitsEnd(line, b + 2)
    IN IF /\ a >= i
          /\ a + 1 <= Len(line) /\ line[a + 1] = "." /\ b >= a + 2
          /\ b + 1 <= Len(line) /\ line[b + 1] = "." /\ c >= b + 2
       THEN c ELSE 0

\* the end of the match of v?\d+\.\d+\.\d+(?:-rc\.\d+|-alpha\.\d+)? at i, 0 if none
VersionEnd(line, i) ==
    LET from == IF i <= Len(line) /\ line[i] = "v" THEN i + 1 ELSE i
        core == NumbersEnd(line, from)
        tail == DigitsEnd(line, core + 4)
    IN IF core = 0 THEN 0
       ELSE IF /\ core + 3 <= Len(line)
               /\ line[core + 1] = "-" /\ line[core + 2] \in {"rc", "alpha"}
               /\ line[core + 3] = "." /\ tail >= core + 4
            THEN tail
            ELSE core

\* re.findall(version_pattern, feature_line)
RECURSIVE FindVersions(_, _)
FindVersions(line, i) ==
    IF i > Len(line) THEN {}
    ELSE IF VersionEnd(line, i) = 0 THEN FindVersions(line, i + 1)
    ELSE {SubSeq(line, i, VersionEnd(line, i))} \cup FindVersions(line, VersionEnd(line, i) + 1)

\* _validate_test_version_line
ValidateTestVersionLine(feature_line, api_version) ==
    \/ api_version \in FindVersions(feature_line, 1)
    \/ <<"v">> \o api_version \in FindVersions(feature_line, 1)

\* the end of the longest run of symbols from chars that starts at i, i - 1 if none
RECURSIVE RunEnd(_, _, _)
RunEnd(content, i, chars) ==
    IF i <= Len(content) /\ content[i] \in chars THEN RunEnd(content, i + 1, chars) ELSE i - 1

\* the end of the run of symbols other than the quote that starts at i
RECURSIVE UnquotedEnd(_, _)
UnquotedEnd(content, i) ==
    IF i <= Len(content) /\ content[i] # "\"" THEN UnquotedEnd(content, i + 1) ELSE i - 1

\* re.findall(r'request\s+"([^"]+)"', content), in order of occurrence
RECURSIVE FindRequests(_, _)
FindRequests(content, i) ==
    IF i > Len(content) THEN <<>>
    ELSE LET blank == RunEnd(content, i + 1, {" ", "\n", "\t"})
             name == UnquotedEnd(content, blank + 2)
         IN IF /\ content[i] = "request" /\ blank >= i + 1
               /\ blank + 1 <= Len(content) /\ content[blank + 1] = "\""
               /\ name >= blank + 2
               /\ name + 1 <= Len(content) /\ content[name + 1] = "\""
            THEN <<SubSeq(content, blank + 2, name)>> \o FindRequests(content, name + 2)
            ELSE FindRequests(content, i + 1)

\* xs without its repeated entries
RECURSIVE Distinct(_)
Distinct(xs) ==
    IF xs = <<>> THEN <<>>
    ELSE LET front == Distinct(SubSeq(xs, 1, Len(xs) - 1))
         IN IF \E i \in 1..Len(front) : front[i] = xs[Len(xs)] THEN front
            ELSE Append(front, xs[Len(xs)])

\* _extract_test_operations; of the orders list(set(...)) can give, the one of
\* first occurrence
ExtractTestOperations(content) == Distinct(FindRequests(content, 1))

\* line.strip()
RECURSIVE Strip(_)
Strip(line) ==
    IF line # <<>> /\ line[1] \in WhiteSym THEN Strip(Tail(line))
    ELSE IF line # <<>> /\ line[Len(line)] \in WhiteSym THEN Strip(SubSeq(line, 1, Len(line) - 1))
    ELSE line

\* s.replace(old, '')
RECURSIVE Remove(_, _)
Remove(s, old) ==
    IF s = <<>> THEN <<>>
    ELSE IF StartsWith(s, old) THEN Remove(SubSeq(s, Len(old) + 1, Len(s)), old)
    ELSE <<s[1]>> \o Remove(Tail(s), old)

TestDir == <<"tests/">>

\* str(test_path / f"{test_file_stem}.feature") and Path(test_file).stem
TestFilePath(stem) == TestDir \o stem \o <<".feature">>
Stem(path) == SubSeq(path, 2, Len(path) - 1)

\* _validate_test_file: the issues it appends; a test file is [readable, content]
ValidateTestFile(file, test_file, api_name, api_version, api_operations, review) ==
    LET content == file.content
        lines == Split(content, "\n")
        first == [i \in 1..(IF Len(lines) < 2 THEN Len(lines) ELSE 2) |-> Strip(lines[i])]
        found == {i \in 1..Len(first) : StartsWith(first[i], <<"Feature:">>)}
        feature_line_number == CHOOSE i \in found : \A j \in found : i <= j
        wip == Contains(Lower(content), <<"wip">>)
        test_operations == ExtractTestOperations(content)
        known(op) == \E i \in 1..Len(api_operations) : api_operations[i] = op
        unknown == SelectSeq(test_operations, LAMBDA op : ~known(op))
        expected_operation == Remove(Stem(test_file), api_name \o <<"-">>)
    IN IF ~file.readable
       THEN <<Issue("Critical", "Test File Loading", <<"Failed to load test file">>, test_file)>>
       ELSE (IF review = "wip" /\ ~wip
             THEN <<Issue("Medium", "Test Files",
                          <<"WIP review expects test files to reference 'wip' version">>, test_file)>>
             ELSE IF review # "wip" /\ wip
             THEN <<Issue("Critical", "Test Files",
                          <<"Release review should not contain 'wip' references in test files">>,
                          test_file)>>
             ELSE <<>>)
         \o (IF found = {}
             THEN <<Issue("Medium", "Test Structure",
                          <<"No Feature line found in first two lines">>,
                          test_file \o <<":lines 1-2">>)>>
             ELSE IF ~ValidateTestVersionLine(first[feature_line_number], api_version)
             THEN <<Issue("Medium", "Test Version",
                          <<"Feature line doesn't mention API version '">> \o api_version \o <<"'">>,
                          test_file \o <<":line ">> \o Dec(feature_line_number))>>
             ELSE <<>>)
         \o [i \in 1..Len(unknown) |->
                Issue("Critical", "Test Operation IDs",
                      <<"Test references unknown operation '">> \o unknown[i] \o <<"'">>,
                      test_file)]
         \o (IF StartsWith(Stem(test_file), api_name \o <<"-">>) /\ ~known(expected_operation)
             THEN <<Issue("Low", "Test File Naming",
                          <<"Test file suggests operation '">> \o expected_operation
                              \o <<"' but it doesn't exist in API">>,
                          test_file)>>
             ELSE <<>>)

(***************************************************************************)
(* Test alignment                                                          *)
(***************************************************************************)

\* _extract_operation_ids: [ids, raised]; path_obj.items() and operation.get raise
\* on a value that is no mapping
ExtractOperationIds(doc) ==
    LET paths == Get(doc, <<"paths">>, EmptyDict)
        ops == Operations(doc, CoreMethods)
        ids == [i \in 1..Len(ops) |-> Get(ops[i].operation, <<"operationId">>, PNone)]
        bad(path_obj) ==
            \/ ~IsDict(path_obj)
            \/ \E j \in 1..Len(path_obj[2]) :
                  path_obj[2][j][1] \in CoreMethods /\ ~IsDict(path_obj[2][j][2])
    IN IF ~IsDict(paths) \/ \E i \in 1..Len(paths[2]) : bad(paths[2][i][2])
       THEN [ids |-> <<>>, raised |-> TRUE]
       ELSE [ids |-> [i \in 1..Len(SelectSeq(ids, Truthy)) |-> Text(SelectSeq(ids, Truthy)[i])],
             raised |-> FALSE]

\* the outcome of opening and reading a test file
TestContent(stem) ==
    IF stem = <<"foo">>
    THEN [readable |-> TRUE,
          content |-> <<"Feature:", " ", "foo", " ", "v", "1", ".", "0", ".", "0", "\n",
                        "request", " ", "\"", "getItems", "\"", "\n">>]
    ELSE IF stem = <<"foo", "-", "bar", "-", "create">>
    THEN [readable |-> TRUE,
          content |-> <<"#", " ", "wip", "\n",
                        "Feature:", " ", "foo", " ", "1", ".", "0", ".", "0", "-", "rc", ".", "1", "\n",
                        "request", " ", "\"", "create", "\"", "\n",
                        "request", "\n", "\"", "getItems", "\"", "\n",
                        "request", " ", "\"", "create", "\"", "\n">>]
    ELSE IF stem = <<"device", "-", "create">>
    THEN [readable |-> TRUE, content |-> <<"\n", "\n", "Feature:", " ", "device", "\n">>]
    ELSE [readable |-> FALSE, content |-> <<>>]

ApiLoading(api_file) ==
    Issue("Critical", "API Loading", <<"Failed to load API file">>, api_file.stem \o <<".yaml">>)

\* validate_test_alignment_single: [result, raised]
ValidateTestAlignmentSingle(api_file, api_name, assigned_test_files, review) ==
    LET result == [api_file |-> api_file.stem, test_files |-> assigned_test_files,
                   issues |-> <<>>, checks_performed |-> <<"Test alignment validation">>]
        spec == api_file.doc
        api_info == Get(spec, <<"info">>, EmptyDict)
        api_version == Text(Get(api_info, <<"version">>, EmptyStr))
        api_operations == ExtractOperationIds(spec)
        RECURSIVE each(_)
        each(i) ==
            IF i > Len(assigned_test_files) THEN <<>>
            ELSE ValidateTestFile(TestContent(Stem(assigned_test_files[i])),
                                  assigned_test_files[i], api_name, api_version,
                                  api_operations.ids, review) \o each(i + 1)
    IN IF api_file.load # "ok"
       THEN [result |-> [result EXCEPT !.issues = <<ApiLoading(api_file)>>], raised |-> FALSE]
       ELSE IF ~IsDict(spec) \/ ~IsDict(api_info)
       THEN [result |-> result, raised |-> TRUE]
       ELSE IF assigned_test_files = <<>>
       THEN [result |-> [result EXCEPT !.issues =
                            <<Issue("Critical", "Test Files",
                                    <<"No test files found for API '">> \o api_name \o <<"'">>,
                                    <<"test directory">>)>>],
             raised |-> FALSE]
       ELSE IF api_operations.raised
       THEN [result |-> result, raised |-> TRUE]
       ELSE [result |-> [result EXCEPT !.issues = each(1)], raised |-> FALSE]

\* the name the first loop of the mapper gives a specification
MapperApiName(api_file) ==
    IF api_file.load # "ok" \/ ~IsDict(api_file.doc) THEN api_file.stem
    ELSE LET extracted == ExtractApiNameFromServers(api_file.doc)
         IN IF extracted.raised \/ extracted.name = NoName THEN api_file.stem
            ELSE extracted.name

\* is_exact_match or is_prefix_match
Matches(test_file_stem, api_name) ==
    test_file_stem = api_name \/ StartsWith(test_file_stem, api_name \o <<"-">>)

\* a test is assigned to no name at all, whatever match there is
NeverWins(api_name, current_assignment) == FALSE

\* len(api_name) > len(current_assignment)
LongerWins(api_name, current_assignment) == StrLen(api_name) > StrLen(current_assignment)

\* d.get(key), for a dict kept as a sequence of <<key, value>> pairs; <<>> for None
Lookup(d, key) ==
    IF \E i \in 1..Len(d) : d[i][1] = key
    THEN (CHOOSE pair \in {d[i] : i \in 1..Len(d)} : pair[1] = key)[2]
    ELSE <<>>

InDict(d, key) == \E i \in 1..Len(d) : d[i][1] = key

\* d[key] = value
Store(d, key, value) ==
    IF InDict(d, key)
    THEN [i \in 1..Len(d) |-> IF d[i][1] = key THEN <<key, value>> ELSE d[i]]
    ELSE Append(d, <<key, value>>)

\* the two loops that fill test_file_assignments
RECURSIVE AssignLoop(_, _, _, _, _)
AssignLoop(names, tests, i, j, assigned) ==
    IF i > Len(names) THEN assigned
    ELSE IF j > Len(tests) THEN AssignLoop(names, tests, i + 1, 1, assigned)
    ELSE AssignLoop(names, tests, i, j + 1,
            IF /\ Matches(tests[j], names[i])
               /\ \/ ~InDict(assigned, tests[j])
                  \/ LongerWins(names[i], Lookup(assigned, tests[j]))
            THEN Store(assigned, tests[j], names[i])
            ELSE assigned)

\* api_to_test_files: every name with the paths of the tests assigned to it
ReverseMapping(names, assigned) ==
    LET RECURSIVE empty(_, _)
        empty(d, k) == IF k > Len(names) THEN d ELSE empty(Store(d, names[k], <<>>), k + 1)
        RECURSIVE fill(_, _)
        fill(d, k) ==
            IF k > Len(assigned) THEN d
            ELSE fill(Store(d, assigned[k][2],
                            Append(Lookup(d, assigned[k][2]), TestFilePath(assigned[k][1]))),
                      k + 1)
    IN fill(empty(<<>>, 1), 1)

(***************************************************************************)
(* Mapper runs                                                             *)
(***************************************************************************)

\* the document of a specification whose server URL names the API name
Named(name) ==
    With(CompliantDoc, <<"servers">>,
         PList(<<PDict(<< <<<<"url">>, PStr(<<"{apiRoot}", "/">> \o name \o <<"/", "v", "1">>)>> >>)>>))

\* the specification files of the mapper runs: two with names of their own, one
\* that shares the name of another, an empty file, a missing one and one that is no YAML
MapFiles == <<
    Loaded(<<"foo">>, Named(<<"foo">>)),
    Loaded(<<"foo", "-", "bar">>, Named(<<"foo", "-", "bar">>)),
    Loaded(<<"bar">>, Named(<<"foo", "-", "bar">>)),
    Loaded(<<"device">>, PNone),
    [stem |-> <<"location">>, load |-> "missing", doc |-> PNone],
    [stem |-> <<"broken">>, load |-> "yaml_error", doc |-> PNone] >>

\* the base names of the .feature files
TestStems == <<
    <<"foo">>,
    <<"foo", "-", "bar", "-", "create">>,
    <<"foo", "bar">>,
    <<"device", "-", "create">> >>

MaxSpecs == 2
MaxTests == 2

\* the sequences without repetition of at most n numbers of 1..k
Lists(k, n) ==
    {l \in UNION {[1..m -> 1..k] : m \in 0..n} :
        \A a, b \in 1..Len(l) : a # b => l[a] # l[b]}

\* an input of the mapper: the specifications, whether the test directory exists,
\* and its .feature files in the order glob yields them
MapCases ==
    {c \in [api_files : Lists(Len(MapFiles), MaxSpecs) \ {<<>>},
            exists : BOOLEAN,
            tests : Lists(Len(TestStems), MaxTests)] :
        ~c.exists => c.tests = <<>>}

api_files == [i \in 1..Len(map_case.api_files) |-> MapFiles[map_case.api_files[i]]]
all_test_files == [i \in 1..Len(map_case.tests) |-> TestStems[map_case.tests[i]]]

\* orphan_test_files left empty
NoOrphanTestFiles == <<>>

\* orphan_test_files
orphan_test_files ==
    LET orphans == SelectSeq(all_test_files, LAMBDA t : ~InDict(assignments, t))
    IN [i \in 1..Len(orphans) |-> orphans[i] \o <<".feature">>]

InitMap ==
    /\ review_type \in ReviewTypes
    /\ expected_commonalities_version = ImplementedVersion
    /\ api_spec = NoFile
    /\ results = <<>>
    /\ map_case \in MapCases
    /\ map_pc = "names"
    /\ all_api_names = <<>>
    /\ assignments = <<>>
    /\ api_to_test = <<>>
    /\ test_results = <<>>
    /\ ClsIdle /\ NormIdle /\ RestIdle

\* the loop that extracts all API names
ExtractNames ==
    /\ map_pc = "names"
    /\ all_api_names' = [i \in 1..Len(api_files) |-> MapperApiName(api_files[i])]
    /\ map_pc' = "directory"
    /\ UNCHANGED <<valVars, clsVars, normVars, map_case, assignments, api_to_test,
                 test_results, restVars>>

\* if not test_path.exists(): one result per specification, and return
NoTestDirectory ==
    /\ map_pc = "directory"
    /\ ~map_case.exists
    /\ test_results' =
          [i \in 1..Len(api_files) |->
              [api_file |-> api_files[i].stem, test_files |-> <<>>,
               issues |-> <<Issue("Critical", "Test Directory",
                                  <<"Test directory does not exist: ">> \o TestDir, TestDir)>>,
               checks_performed |-> <<"Test alignment validation">>]]
    /\ map_pc' = "done"
    /\ UNCHANGED <<valVars, clsVars, normVars, map_case, all_api_names, assignments,
                 api_to_test, restVars>>

\* the assignment loops and the reverse mapping
AssignTests ==
    /\ map_pc = "directory"
    /\ map_case.exists
    /\ assignments' = AssignLoop(all_api_names, all_test_files, 1, 1, <<>>)
    /\ api_to_test' = ReverseMapping(all_api_names, assignments')
    /\ map_pc' = "validate"
    /\ UNCHANGED <<valVars, clsVars, normVars, map_case, all_api_names, test_results, restVars>>

\* one round of the loop over api_files: validate_test_alignment_single, whose
\* exception leaves the mapper
ValidateAlignment ==
    /\ map_pc = "validate"
    /\ Len(test_results) < Len(api_files)
    /\ LET i == Len(test_results) + 1
           \* api_files.index(api_file)
           index == CHOOSE k \in 1..Len(api_files) :
                        api_files[k] = api_files[i] /\ \A j \in 1..(k - 1) : api_files[j] # api_files[i]
           api_name == all_api_names[index]
           single == ValidateTestAlignmentSingle(api_files[i], api_name,
                                                 Lookup(api_to_test, api_name), review_type)
       IN IF single.raised
          THEN map_pc' = "raised" /\ UNCHANGED test_results
          ELSE test_results' = Append(test_results, single.result) /\ UNCHANGED map_pc
    /\ UNCHANGED <<valVars, clsVars, normVars, map_case, all_api_names, assignments,
                 api_to_test, restVars>>

\* the orphan report on the first result, and return
ReportOrphans ==
    /\ map_pc = "validate"
    /\ Len(test_results) = Len(api_files)
    /\ test_results' =
          IF orphan_test_files # <<>> /\ test_results # <<>>
          THEN [test_results EXCEPT ![1].issues = @ \o
                   [k \in 1..Len(orphan_test_files) |->
                       Issue("Medium", "Orphan Test Files",
                             <<"Test file '">> \o orphan_test_files[k] \o <<"' does not match any API">>,
                             TestDir \o orphan_test_files[k])]]
          ELSE test_results
    /\ map_pc' = "done"
    /\ UNCHANGED <<valVars, clsVars, normVars, map_case, all_api_names, assignments,
                 api_to_test, restVars>>

NextMap ==
    \/ ExtractNames
    \/ NoTestDirectory
    \/ AssignTests
    \/ ValidateAlignment
    \/ ReportOrphans

SpecMap == InitMap /\ [][NextMap]_vars

(***************************************************************************)
(* Schema normalisation                                                    *)
(***************************************************************************)

\* the keys of the shorter list ['example', 'description']
DroppedKeysShort == {<<"example">>, <<"description">>}

\* ['example', 'examples', 'description']
DroppedKeys == {<<"example">>, <<"examples">>, <<"description">>}

\* _normalize_schema_for_comparison
RECURSIVE NormalizeSchemaForComparison(_)
NormalizeSchemaForComparison(schema) ==
    IF IsDict(schema)
    THEN LET kept == SelectSeq(schema[2], LAMBDA kv : kv[1] \notin DroppedKeys)
         IN PDict([i \in 1..Len(kept) |-> <<kept[i][1], NormalizeSchemaForComparison(kept[i][2])>>])
    ELSE IF IsList(schema)
    THEN PList([i \in 1..Len(schema[2]) |-> NormalizeSchemaForComparison(schema[2][i])])
    ELSE schema

\* a == b, for Python values: the order of the keys of a dict does not count
RECURSIVE PyEq(_, _)
PyEq(a, b) ==
    IF IsDict(a) /\ IsDict(b)
    THEN /\ {a[2][i][1] : i \in 1..Len(a[2])} = {b[2][i][1] : i \in 1..Len(b[2])}
         /\ \A i \in 1..Len(a[2]) : PyEq(a[2][i][2], Item(b, a[2][i][1]))
    ELSE IF IsList(a) /\ IsList(b)
    THEN /\ Len(a[2]) = Len(b[2])
         /\ \A i \in 1..Len(a[2]) : PyEq(a[2][i], b[2][i])
    ELSE a[1] = b[1] /\ a = b

\* the annotations a schema object may carry
Annotations == {"none", "described", "documented"}

\* the schema object node with its annotations
Annotated(node, annotation) ==
    IF annotation = "described"
    THEN With(node, <<"description">>, PStr(<<"A short text">>))
    ELSE IF annotation = "documented"
    THEN PDict(<< <<<<"description">>, PStr(<<"Another text">>)>>,
                  <<<<"examples">>, PList(<<PStr(<<"x">>), PDict(<< <<<<"code">>, PStr(<<"y">>)>> >>)>>)>> >>
               \o node[2]
               \o << <<<<"example">>, PDict(<< <<<<"description">>, PStr(<<"z">>)>> >>)>> >>)
    ELSE node

StringSchema == PDict(<< <<<<"type">>, PStr(<<"string">>)>> >>)
IntegerSchema == PDict(<< <<<<"type">>, PStr(<<"integer">>)>> >>)

Shapes == {"string", "object", "allOf", "reordered"}

\* a schema: a shape with the annotations of its root and of its two members
SchemaCases == Shapes \X Annotations \X Annotations \X Annotations

NormSchema(c) ==
    LET first == Annotated(StringSchema, c[3])
        second == Annotated(IntegerSchema, c[4])
        properties == PDict(<< <<<<"code">>, first>>, <<<<"message">>, second>> >>)
        object == PDict(<< <<<<"type">>, PStr(<<"object">>)>>, <<<<"properties">>, properties>> >>)
    IN IF c[1] = "string" THEN Annotated(StringSchema, c[2])
       ELSE IF c[1] = "object" THEN Annotated(object, c[2])
       ELSE IF c[1] = "allOf"
       THEN Annotated(PDict(<< <<<<"allOf">>, PList(<<first, second>>)>> >>), c[2])
       ELSE Annotated(PDict(<< <<<<"properties">>,
                                PDict(<< <<<<"message">>, second>>, <<<<"code">>, first>> >>)>>,
                              <<<<"type">>, PStr(<<"object">>)>> >>), c[2])

\* what is left of a case without its annotations; "reordered" is "object" with
\* its keys in another order
Skeleton(c) == IF c[1] = "reordered" THEN "object" ELSE c[1]

InitNorm ==
    /\ review_type = "release-candidate"
    /\ expected_commonalities_version = ImplementedVersion
    /\ api_spec = NoFile
    /\ results = <<>>
    /\ norm_in \in SchemaCases \X SchemaCases
    /\ norm_out = <<>>
    /\ ClsIdle /\ MapIdle /\ RestIdle

\* reference_schema and current_schema of _validate_shared_schema
NormalizeBoth ==
    /\ norm_out = <<>>
    /\ norm_out' = <<[i \in 1..2 |-> NormalizeSchemaForComparison(NormSchema(norm_in[i]))]>>
    /\ UNCHANGED <<valVars, clsVars, mapVars, norm_in, restVars>>

\* the normal forms handed to _normalize_schema_for_comparison again
NormalizeAgain ==
    /\ Len(norm_out) = 1
    /\ norm_out' = Append(norm_out, [i \in 1..2 |-> NormalizeSchemaForComparison(norm_out[1][i])])
    /\ UNCHANGED <<valVars, clsVars, mapVars, norm_in, restVars>>

NextNorm == NormalizeBoth \/ NormalizeAgain

SpecNorm == InitNorm /\ [][NextNorm]_vars

(***************************************************************************)
(* Project consistency                                                     *)
(***************************************************************************)

\* common_schema_names
CommonSchemaNames == <<
    <<"XCorrelator">>, <<"ErrorInfo">>, <<"Device">>, <<"DeviceResponse">>,
    <<"PhoneNumber">>, <<"NetworkAccessIdentifier">>, <<"DeviceIpv4Addr">>,
    <<"DeviceIpv6Address">>, <<"SingleIpv4Addr">>, <<"Port">>, <<"Point">>,
    <<"Latitude">>, <<"Longitude">>, <<"Area">>, <<"AreaType">>, <<"Circle">> >>

\* Path(api_file).name
FileName(file) == file.stem \o <<".yaml">>

\* str(v)
StrOf(v) == IF IsStr(v) THEN Text(v) ELSE Render(v)

\* the specs dict of validate_project_consistency: the files that loaded, in order
LoadedSpecs(files) == SelectSeq(files, LAMBDA file : file.load = "ok")

\* the "File Loading" issues of the files that did not load
LoadingIssues(files) ==
    LET failed == SelectSeq(files, LAMBDA file : file.load # "ok")
    IN [i \in 1..Len(failed) |->
          Issue("Critical", "File Loading",
                <<"Failed to load ">> \o FileName(failed[i]), FileName(failed[i]))]

\* spec.get('components', {}).get('schemas', {}), schema_name in schemas and
\* schemas[schema_name] for one file: "found", "absent" or "raised"
SchemaLookup(spec, schema_name) ==
    LET components == Get(spec, <<"components">>, EmptyDict)
        schemas == Get(components, <<"schemas">>, EmptyDict)
    IN IF ~IsDict(spec) \/ ~IsDict(components) THEN "raised"
       ELSE IF IsDict(schemas) THEN (IF Has(schemas, schema_name) THEN "found" ELSE "absent")
       ELSE IF IsList(schemas)
       THEN (IF \E i \in 1..Len(schemas[2]) : schemas[2][i] = PStr(schema_name)
             THEN "raised" ELSE "absent")
       ELSE IF IsStr(schemas)
       THEN (IF Contains(Text(schemas), schema_name) THEN "raised" ELSE "absent")
       ELSE "raised"

\* file_paths[-1], where the code takes file_paths[0]
LastFile(file_paths) == file_paths[Len(file_paths)]

\* reference_file = file_paths[0]
ReferenceFile(file_paths) == file_paths[1]

\* _validate_shared_schema
ValidateSharedSchema(schema_name, specs) ==
    LET file_paths == SelectSeq(specs, LAMBDA file : SchemaLookup(file.doc, schema_name) = "found")
        schema(file) == Item(Item(file.doc, <<"components">>), <<"schemas">>)
        reference_file == ReferenceFile(file_paths)
        reference_schema ==
            NormalizeSchemaForComparison(Item(schema(reference_file), schema_name))
        differs(file) ==
            ~PyEq(NormalizeSchemaForComparison(Item(schema(file), schema_name)), reference_schema)
        others == SelectSeq(Tail(file_paths), differs)
    IN IF \E i \in 1..Len(specs) : SchemaLookup(specs[i].doc, schema_name) = "raised"
       THEN Raised(<<>>)
       ELSE IF Len(file_paths) < 2 THEN Done(<<>>)
       ELSE Done([i \in 1..Len(others) |->
                    Issue("Medium", "Schema Consistency",
                          <<"Schema ">> \o schema_name \o <<" differs between files">>,
                          FileName(reference_file) \o <<" vs ">> \o FileName(others[i]))])

\* _validate_license_consistency
ValidateLicenseConsistency(specs) ==
    LET info(file) == Get(file.doc, <<"info">>, EmptyDict)
        license(file) == Get(info(file), <<"license">>, EmptyDict)
        licenses == SelectSeq(specs, LAMBDA file : Truthy(license(file)))
        others == SelectSeq(Tail(licenses),
                            LAMBDA file : ~PyEq(license(file), license(licenses[1])))
    IN IF \E i \in 1..Len(specs) : ~IsDict(specs[i].doc) \/ ~IsDict(info(specs[i]))
       THEN Raised(<<>>)
       ELSE IF Len(licenses) < 2 THEN Done(<<>>)
       ELSE Done([i \in 1..Len(others) |->
                    Issue("Medium", "License Consistency",
                          <<"License information differs between files">>,
                          FileName(licenses[1]) \o <<" vs ">> \o FileName(others[i]))])

\* _validate_commonalities_consistency
ValidateCommonalitiesConsistency(specs) ==
    LET info(file) == Get(file.doc, <<"info">>, EmptyDict)
        version(file) == Get(info(file), <<"x-camara-commonalities">>, PNone)
        versions == SelectSeq(specs, LAMBDA file : Truthy(version(file)))
        others == SelectSeq(Tail(versions),
                            LAMBDA file : StrOf(version(file)) # StrOf(version(versions[1])))
    IN IF \E i \in 1..Len(specs) : ~IsDict(specs[i].doc) \/ ~IsDict(info(specs[i]))
       THEN Raised(<<>>)
       ELSE IF Len(versions) < 2 THEN Done(<<>>)
       ELSE Done([i \in 1..Len(others) |->
                    Issue("Medium", "Commonalities Consistency",
                          <<"Commonalities version differs: ">> \o StrOf(version(versions[1]))
                              \o <<" vs ">> \o StrOf(version(others[i])),
                          FileName(versions[1]) \o <<" vs ">> \o FileName(others[i]))])

\* ConsistencyResult() with the entry validate_project_consistency appends first
NewConsistencyResult ==
    [issues |-> <<>>, checks_performed |-> <<"Project-wide shared schema validation">>]

\* validate_project_consistency: [result, raised]
ValidateProjectConsistency(files) ==
    LET specs == LoadedSpecs(files)
        loading == LoadingIssues(files)
        shared == ForEach([i \in 1..Len(CommonSchemaNames) |->
                              ValidateSharedSchema(CommonSchemaNames[i], specs)])
        out == Then(Done(loading),
                    Then(shared, Then(ValidateLicenseConsistency(specs),
                                      ValidateCommonalitiesConsistency(specs))))
    IN IF Len(files) < 2 THEN [result |-> NewConsistencyResult, raised |-> FALSE]
       ELSE IF Len(specs) < 2
       THEN [result |-> [NewConsistencyResult EXCEPT !.issues = loading], raised |-> FALSE]
       ELSE [result |-> [NewConsistencyResult EXCEPT !.issues = out.issues],
             raised |-> out.raised]

(***************************************************************************)
(* Consistency runs                                                        *)
(***************************************************************************)

\* an ErrorInfo schema whose code is a number
NumericErrorInfo ==
    With(ErrorInfoSchema, <<"properties">>,
         With(Item(ErrorInfoSchema, <<"properties">>), <<"code">>, IntegerSchema))

\* the ErrorInfo schema with annotations and its keys the other way round
ReorderedErrorInfo ==
    PDict(<< <<<<"description">>, PStr(<<"The error">>)>>,
             <<<<"properties">>,
               PDict(<< <<<<"message">>, Annotated(StringSchema, "documented")>>,
                        <<<<"code">>, Annotated(StringSchema, "described")>> >>)>>,
             <<<<"type">>, PStr(<<"object">>)>> >>)

ErrorInfoAs(doc, schema) ==
    With(doc, <<"components">>,
         With2(Item(doc, <<"components">>), <<"schemas">>, <<"ErrorInfo">>, schema))

Commonalities(doc, version) == With2(doc, <<"info">>, <<"x-camara-commonalities">>, PStr(version))

\* the files the consistency runs draw from
ConFiles == <<
    Loaded(<<"alpha">>, Commonalities(CompliantDoc, <<"0", ".", "6">>)),
    Loaded(<<"beta">>, ErrorInfoAs(CompliantDoc, Annotated(ErrorInfoSchema, "documented"))),
    Loaded(<<"gamma">>, ErrorInfoAs(CompliantDoc, NumericErrorInfo)),
    Loaded(<<"delta">>, With2(CompliantDoc, <<"components">>, <<"schemas">>,
                              PDict(<< <<<<"XCorrelator">>, IntegerSchema>>,
                                       <<<<"ErrorInfo">>, ReorderedErrorInfo>> >>))),
    Loaded(<<"epsilon">>,
           Commonalities(With2(NoSchemas(CompliantDoc), <<"info">>, <<"license">>,
                               PDict(<< <<<<"name">>, PStr(<<"MIT">>)>> >>)),
                         <<"0", ".", "5">>)),
    Loaded(<<"zeta">>, PNone),
    Loaded(<<"eta">>, PList(<<>>)),
    [stem |-> <<"theta">>, load |-> "missing", doc |-> PNone],
    [stem |-> <<"iota">>, load |-> "yaml_error", doc |-> PNone] >>

\* the number of files of a consistency run
MaxConFiles == 3

\* the lists of distinct files handed to validate_project_consistency
ConLists ==
    {s \in UNION {[1..m -> 1..Len(ConFiles)] : m \in 0..MaxConFiles} :
        \A i, j \in 1..Len(s) : i # j => s[i] # s[j]}

InitConsistency ==
    /\ review_type = "release-candidate"
    /\ expected_commonalities_version = ImplementedVersion
    /\ api_spec = NoFile
    /\ results = <<>>
    /\ con_files \in ConLists
    /\ con_result = <<>>
    /\ ClsIdle /\ MapIdle /\ NormIdle /\ MainIdle /\ SumIdle /\ RespIdle /\ ThrIdle /\ ChkIdle

\* validator.validate_project_consistency(api_files)
CheckConsistency ==
    /\ con_result = <<>>
    /\ con_result' = <<ValidateProjectConsistency([i \in 1..Len(con_files) |->
                                                      ConFiles[con_files[i]]])>>
    /\ UNCHANGED <<valVars, clsVars, mapVars, normVars, con_files,
                   mainVars, sumVars, respVars, thrVars, chkVars>>

NextConsistency == CheckConsistency

SpecConsistency == InitConsistency /\ [][NextConsistency]_vars

(***************************************************************************)
(* main: validation, consistency, test alignment, report and exit status   *)
(***************************************************************************)

\* an input of main: the files find_api_files yields (none, too), whether
\* code/Test_definitions exists, and its .feature files
MainCases ==
    {c \in [api_files : Lists(Len(MapFiles), MaxSpecs),
            exists : BOOLEAN,
            tests : Lists(Len(TestStems), MaxTests)] :
        ~c.exists => c.tests = <<>>}

\* len([i for i in issues if i.severity == Severity.CRITICAL])
CriticalCount(issues) == Len(SelectSeq(issues, LAMBDA issue : issue.severity = "Critical"))

\* sum(count(r) for r in rs)
RECURSIVE SumCriticals(_)
SumCriticals(rs) ==
    IF rs = <<>> THEN 0 ELSE CriticalCount(Head(rs).issues) + SumCriticals(Tail(rs))

\* total_critical counted over the ValidationResults alone
TotalCriticalOfFiles(file_results, consistency, tests) ==
    SumCriticals([i \in 1..Len(file_results) |-> file_results[i].result])

\* total_critical of main
TotalCritical(file_results, consistency, tests) ==
    SumCriticals([i \in 1..Len(file_results) |-> file_results[i].result])
        + SumCriticals(consistency) + SumCriticals(tests)

\* validator = CAMARAAPIValidator(...); results = []
InitMain ==
    /\ review_type \in ReviewTypes
    /\ expected_commonalities_version = ImplementedVersion
    /\ api_spec = NoFile
    /\ results = <<>>
    /\ map_case \in MainCases
    /\ map_pc = ""
    /\ all_api_names = <<>> /\ assignments = <<>> /\ api_to_test = <<>> /\ test_results = <<>>
    /\ main_pc = "files"
    /\ consistency_result = <<>>
    /\ main_tests = <<>>
    /\ exit_status = <<>>
    /\ ClsIdle /\ NormIdle /\ ConIdle /\ SumIdle /\ RespIdle /\ ThrIdle /\ ChkIdle

\* if not api_files: the empty report and sys.exit(0)
MainNoFiles ==
    /\ main_pc = "files"
    /\ api_files = <<>>
    /\ exit_status' = <<0>>
    /\ main_pc' = "exited"
    /\ UNCHANGED <<valVars, clsVars, mapVars, normVars, conVars, consistency_result, main_tests,
                   sumVars, respVars, thrVars, chkVars>>

\* one round of the loop over api_files; api_spec holds the position of the file
MainValidate ==
    /\ main_pc = "files"
    /\ Len(results) < Len(api_files)
    /\ LET i == Len(results) + 1
       IN /\ results' = Append(results,
                               [file |-> map_case.api_files[i],
                                result |-> ValidateApiFile(api_files[i], review_type,
                                                           expected_commonalities_version)])
          /\ api_spec' = IF api_files[i].load = "ok" THEN map_case.api_files[i] ELSE api_spec
    /\ UNCHANGED <<review_type, expected_commonalities_version, clsVars, mapVars, normVars,
                   conVars, mainVars, sumVars, respVars, thrVars, chkVars>>

\* if len(api_files) > 1: validate_project_consistency, whose exception leaves
\* consistency_result as None
MainConsistency ==
    /\ main_pc = "files"
    /\ api_files # <<>>
    /\ Len(results) = Len(api_files)
    /\ LET consistency == ValidateProjectConsistency(api_files)
       IN consistency_result' =
             IF Len(api_files) > 1 /\ ~consistency.raised THEN <<consistency.result>> ELSE <<>>
    /\ main_pc' = "tests"
    /\ UNCHANGED <<valVars, clsVars, mapVars, normVars, conVars, main_tests, exit_status,
                   sumVars, respVars, thrVars, chkVars>>

\* os.path.exists(test_dir) is false: test_results stays []
MainSkipTests ==
    /\ main_pc = "tests"
    /\ ~map_case.exists
    /\ main_pc' = "report"
    /\ UNCHANGED <<valVars, clsVars, mapVars, normVars, conVars, consistency_result, main_tests,
                   exit_status, sumVars, respVars, thrVars, chkVars>>

\* validator.map_and_validate_test_files_to_apis(api_files, test_dir) is called
MainStartTests ==
    /\ main_pc = "tests"
    /\ map_case.exists
    /\ map_pc = ""
    /\ map_pc' = "names"
    /\ UNCHANGED <<valVars, clsVars, normVars, map_case, all_api_names, assignments,
                   api_to_test, test_results, restVars>>

\* the call returns its list, or raises and test_results stays []
MainCollectTests ==
    /\ main_pc = "tests"
    /\ map_pc \in {"done", "raised"}
    /\ main_tests' = IF map_pc = "done" THEN test_results ELSE <<>>
    /\ main_pc' = "report"
    /\ UNCHANGED <<valVars, clsVars, mapVars, normVars, conVars, consistency_result,
                   exit_status, sumVars, respVars, thrVars, chkVars>>

\* generate_report, whose exception is caught; the totals; sys.exit
MainExit ==
    /\ main_pc = "report"
    /\ exit_status' = <<IF TotalCritical(results, consistency_result, main_tests) > 0
                        THEN 1 ELSE 0>>
    /\ main_pc' = "exited"
    /\ UNCHANGED <<valVars, clsVars, mapVars, normVars, conVars, consistency_result, main_tests,
                   sumVars, respVars, thrVars, chkVars>>

NextMain ==
    \/ MainNoFiles
    \/ MainValidate
    \/ MainConsistency
    \/ MainSkipTests
    \/ MainStartTests
    \/ ExtractNames
    \/ AssignTests
    \/ ValidateAlignment
    \/ ReportOrphans
    \/ MainCollectTests
    \/ MainExit

SpecMain == InitMain /\ [][NextMain]_vars

(***************************************************************************)
(* The summary of generate_report                                          *)
(***************************************************************************)

\* 25, the number of issues the summary has room for
DisplayCap == 25

\* a cap on the Critical issues as large as the whole display
CriticalUncapped == DisplayCap

\* 20, the number of Critical issues the summary shows at most
CriticalCap == 20

Min(a, b) == IF a < b THEN a ELSE b

\* xs[:n]
Take(xs, n) == SubSeq(xs, 1, Min(Len(xs), n))

\* [(source_name, i) for i in issues if i.severity == severity]
Sourced(source_name, issues, severity) ==
    LET chosen == SelectSeq(issues, LAMBDA issue : issue.severity = severity)
    IN [k \in 1..Len(chosen) |-> <<source_name, chosen[k]>>]

\* all_critical_issues or all_medium_issues: the issues of one severity from the
\* ValidationResults, the ConsistencyResult and the TestAlignmentResults, in this order
RECURSIVE Collected(_, _, _, _)
Collected(file_results, consistency, tests, severity) ==
    IF file_results # <<>>
    THEN Sourced(Head(file_results).api_name, Head(file_results).issues, severity)
            \o Collected(Tail(file_results), consistency, tests, severity)
    ELSE IF consistency # <<>>
    THEN Sourced(<<"Project-wide">>, consistency[1].issues, severity)
            \o Collected(<<>>, <<>>, tests, severity)
    ELSE IF tests # <<>>
    THEN Sourced(Head(tests).api_file \o <<" Tests">>, Head(tests).issues, severity)
            \o Collected(<<>>, <<>>, Tail(tests), severity)
    ELSE <<>>

\* the "Issues Requiring Attention" part of summary.md: the Critical and the Medium
\* entries it lists and the number in its closing note (0 for no note)
Summary(file_results, consistency, tests) ==
    LET all_critical_issues == Collected(file_results, consistency, tests, "Critical")
        all_medium_issues == Collected(file_results, consistency, tests, "Medium")
        critical_to_show == Min(Len(all_critical_issues), CriticalCap)
        remaining_slots == DisplayCap - critical_to_show
        medium_to_show == Min(Len(all_medium_issues), remaining_slots)
        total_not_shown == Len(all_critical_issues) + Len(all_medium_issues) - DisplayCap
    IN [critical |-> Take(all_critical_issues, critical_to_show),
        medium |-> Take(all_medium_issues, medium_to_show),
        not_shown |-> IF total_not_shown > 0 THEN total_not_shown ELSE 0]

(***************************************************************************)
(* Summary runs                                                            *)
(***************************************************************************)

\* the numbers of Critical and Medium issues of the file under report
MaxCritical == 22
MaxMedium == 26

\* how the issues of the file follow each other, and whether there are a
\* ConsistencyResult and a TestAlignmentResult with issues of their own
SumOrders == {"critical first", "medium first", "mixed"}
SumCases == [critical : 0..MaxCritical, medium : 0..MaxMedium, order : SumOrders,
             others : BOOLEAN]

Numerals == <<"0", "1", "2", "3", "4", "5", "6", "7", "8", "9">>

\* the k-th finding of a severity
Finding(severity, k) ==
    Issue(severity, "Finding", <<Numerals[(k \div 10) + 1], Numerals[(k % 10) + 1]>>, <<>>)

\* Critical and Medium findings in turn, from the c-th and the m-th on
RECURSIVE Mixed(_, _, _, _)
Mixed(c, m, critical, medium) ==
    IF c > critical /\ m > medium THEN <<>>
    ELSE (IF c <= critical THEN <<Finding("Critical", c)>> ELSE <<>>)
         \o (IF m <= medium THEN <<Finding("Medium", m)>> ELSE <<>>)
         \o Mixed(c + 1, m + 1, critical, medium)

\* the ValidationResults, the ConsistencyResult and the TestAlignmentResults of a case
SumResults(c) ==
    LET criticals == [k \in 1..c.critical |-> Finding("Critical", k)]
        mediums == [k \in 1..c.medium |-> Finding("Medium", k)]
        low == <<Finding("Low", 0)>>
    IN <<[NewResult(Loaded(ItemStatus, CompliantDoc)) EXCEPT
            !.api_name = ItemStatus,
            !.issues = IF c.order = "critical first" THEN criticals \o low \o mediums
                       ELSE IF c.order = "medium first" THEN mediums \o low \o criticals
                       ELSE low \o Mixed(1, 1, c.critical, c.medium)]>>
SumConsistency(c) ==
    IF c.others
    THEN <<[NewConsistencyResult EXCEPT
              !.issues = <<Finding("Medium", 97), Finding("Critical", 98)>>]>>
    ELSE <<>>
SumTests(c) ==
    IF c.others
    THEN <<[api_file |-> ItemStatus, test_files |-> <<>>,
            issues |-> <<Finding("Critical", 99), Finding("Medium", 96)>>,
            checks_performed |-> <<"Test alignment validation">>]>>
    ELSE <<>>

InitSummary ==
    /\ review_type = "release-candidate"
    /\ expected_commonalities_version = ImplementedVersion
    /\ api_spec = NoFile
    /\ results = <<>>
    /\ sum_in \in SumCases
    /\ sum_out = <<>>
    /\ ClsIdle /\ MapIdle /\ NormIdle /\ ConIdle /\ MainIdle /\ RespIdle /\ ThrIdle /\ ChkIdle

\* generate_report(results, ..., consistency_result, test_results, ...)
GenerateReport ==
    /\ sum_out = <<>>
    /\ sum_out' = <<Summary(SumResults(sum_in), SumConsistency(sum_in), SumTests(sum_in))>>
    /\ UNCHANGED <<valVars, clsVars, mapVars, normVars, conVars, mainVars, sum_in,
                   respVars, thrVars, chkVars>>

NextSummary == GenerateReport

SpecSummary == InitSummary /\ [][NextSummary]_vars

(***************************************************************************)
(* Response runs                                                           *)
(***************************************************************************)

SchemaRef(name) == PDict(<< <<<<"$ref">>, PStr(<<"#/", "components", "/", "schemas", "/">> \o name)>> >>)
ResponseRef(name) ==
    PDict(<< <<<<"$ref">>, PStr(<<"#/", "components", "/", "responses", "/", name>>)>> >>)

\* the JSON body schemas of the error responses of the runs
BodyShapes == {"direct", "allOf", "allOf of others", "nested allOf", "inline", "other ref",
               "longer name", "oneOf", "no json"}

BodySchema(shape) ==
    LET object == PDict(<< <<<<"type">>, PStr(<<"object">>)>> >>)
    IN IF shape = "direct" THEN SchemaRef(<<"ErrorInfo">>)
       ELSE IF shape = "allOf"
       THEN PDict(<< <<<<"allOf">>, PList(<<object, SchemaRef(<<"ErrorInfo">>)>>)>> >>)
       ELSE IF shape = "allOf of others"
       THEN PDict(<< <<<<"allOf">>, PList(<<object, SchemaRef(<<"Problem">>)>>)>> >>)
       ELSE IF shape = "nested allOf"
       THEN PDict(<< <<<<"allOf">>,
                       PList(<<PDict(<< <<<<"allOf">>,
                                          PList(<<SchemaRef(<<"ErrorInfo">>)>>)>> >>)>>)>> >>)
       ELSE IF shape = "other ref" THEN SchemaRef(<<"Problem">>)
       ELSE IF shape = "longer name" THEN SchemaRef(<<"ErrorInfo", "Detail">>)
       ELSE IF shape = "oneOf"
       THEN PDict(<< <<<<"oneOf">>, PList(<<SchemaRef(<<"ErrorInfo">>)>>)>> >>)
       ELSE object

\* a response object with a body of the shape
ErrorResponse(shape) ==
    PDict(<< <<<<"description">>, PStr(<<"Problem">>)>>,
             <<<<"content">>,
               PDict(<< <<IF shape = "no json" THEN <<"text/plain">> ELSE <<"application/json">>,
                          PDict(<< <<<<"schema">>, BodySchema(shape)>> >>)>> >>)>> >>)

\* how the operation comes by its response: written in place, by a reference to a
\* component response, by a reference to a reference, by a reference that resolves to
\* nothing, to another file, to itself, or to a component that refers back
Indirections == {"in place", "component", "component twice", "unresolved", "external",
                 "self", "cycle"}

\* the response under the status code of the operation
OperationResponse(c) ==
    IF c.by = "in place" THEN ErrorResponse(c.shape)
    ELSE IF c.by = "external"
    THEN PDict(<< <<<<"$ref">>,
                    PStr(<<"common.yaml", "#/", "components", "/", "responses", "/", "First">>)>> >>)
    ELSE IF c.by = "unresolved" THEN ResponseRef("Missing")
    ELSE ResponseRef("First")

\* components.responses of the document
ComponentResponses(c) ==
    IF c.by = "component" THEN PDict(<< <<<<"First">>, ErrorResponse(c.shape)>> >>)
    ELSE IF c.by = "component twice"
    THEN PDict(<< <<<<"First">>, ResponseRef("Second")>>,
                  <<<<"Second">>, ErrorResponse(c.shape)>> >>)
    ELSE IF c.by = "self" THEN PDict(<< <<<<"First">>, ResponseRef("First")>> >>)
    ELSE IF c.by = "cycle"
    THEN PDict(<< <<<<"First">>, ResponseRef("Second")>>,
                  <<<<"Second">>, ResponseRef("First")>> >>)
    ELSE PDict(<< <<<<"Other">>, ErrorResponse(c.shape)>> >>)

RespCases == [shape : BodyShapes, by : Indirections, code : 1..Len(ErrorCodes)]

\* the document of a case, and the responses of its operation
RespDoc(c) == With2(CompliantDoc, <<"components">>, <<"responses">>, ComponentResponses(c))
RespResponses(c) ==
    PDict(<< <<<<"200">>, PDict(<< <<<<"description">>, PStr(<<"OK">>)>> >>)>>,
             <<ErrorCodes[c.code], OperationResponse(c)>> >>)

InitResponse ==
    /\ review_type = "release-candidate"
    /\ expected_commonalities_version = ImplementedVersion
    /\ api_spec = NoFile
    /\ results = <<>>
    /\ resp_case \in RespCases
    /\ resp_out = <<>>
    /\ ClsIdle /\ MapIdle /\ NormIdle /\ ConIdle /\ MainIdle /\ SumIdle /\ ThrIdle /\ ChkIdle

\* self._validate_responses(responses, operation_name, result), with self.api_spec
\* the document of the operation
ValidateOperationResponses ==
    /\ resp_out = <<>>
    /\ resp_out' = <<ValidateResponses(RespResponses(resp_case), <<"GET", " ", "/", "items">>,
                                       RespDoc(resp_case))>>
    /\ UNCHANGED <<valVars, clsVars, mapVars, normVars, conVars, mainVars, sumVars,
                   resp_case, thrVars, chkVars>>

NextResponse == ValidateOperationResponses

SpecResponse == InitResponse /\ [][NextResponse]_vars

(***************************************************************************)
(* validate_api_file step by step, for calls on one validator              *)
(***************************************************************************)

\* the battery of a call that found self.api_spec to be paths_spec when it resolved
\* the response references and section_spec when it went through the security schemes
BatteryWith(file, paths_spec, section_spec, review, expected_version, api_type) ==
    [Battery(file, paths_spec, review, expected_version, api_type) EXCEPT
        ![6] = [names |-> <<"Components validation">>,
                out |-> ValidateComponents(file.doc, section_spec)]]

\* validate_api_file of such a call: the ValidationResult it returns
ValidateApiFileWith(file, paths_spec, section_spec, review, expected_version) ==
    LET result == NewResult(file)
        doc == file.doc
        extracted == ExtractApiNameFromServers(doc)
        fallback == IF extracted.name = NoName
                    THEN <<Issue("Medium", "Server Configuration",
                                 <<"Cannot extract api-name from servers[*].url">>, <<"servers">>)>>
                    ELSE <<>>
        api_type == DetectApiType(doc)
        named == [result EXCEPT
                    !.api_name = IF extracted.name = NoName THEN file.stem ELSE extracted.name,
                    !.version = Text(Get(Get(doc, <<"info">>, EmptyDict), <<"version">>,
                                         PStr(<<"unknown">>))),
                    !.issues = fallback]
        run == RunBattery(BatteryWith(file, paths_spec, section_spec, review,
                                      expected_version, api_type))
    IN IF file.load = "yaml_error" THEN [result EXCEPT !.issues = <<YamlSyntax>>]
       ELSE IF file.load = "missing" THEN [result EXCEPT !.issues = <<ValidationError>>]
       ELSE IF ~IsDict(doc) THEN [result EXCEPT !.issues = <<ValidationError>>]
       ELSE IF extracted.raised THEN [result EXCEPT !.issues = <<ValidationError>>]
       ELSE IF api_type = RAISED THEN [named EXCEPT !.issues = fallback \o <<ValidationError>>]
       ELSE [named EXCEPT
                !.api_type = api_type,
                !.issues = fallback \o run.issues
                              \o (IF run.raised THEN <<ValidationError>> ELSE <<>>),
                !.checks_performed = result.checks_performed
                              \o <<"API type detection: " \o api_type>> \o run.checks,
                !.manual_checks_needed = IF run.raised THEN 0
                                         ELSE GetManualChecksForType(api_type)]

\* lines 203-240 raise: the file does not load or is no mapping, or the name, the
\* type or one of the checks up to the servers raises
RaisesEarly(file, expected_version) ==
    \/ file.load # "ok"
    \/ ~IsDict(file.doc)
    \/ ExtractApiNameFromServers(file.doc).raised
    \/ DetectApiType(file.doc) = RAISED
    \/ CheckVersionMismatch(file.doc, expected_version).raised
    \/ ValidateInfoObject(file.doc, expected_version).raised
    \/ ValidateExternalDocs(file.doc).raised
    \/ ValidateServers(file.doc).raised

\* a document whose 400 response is a reference to a response of its components
ByReference(doc) ==
    With2(With(doc, <<"paths">>,
               PDict(<< <<<<"/", "items">>,
                          PDict(<< <<<<"get">>,
                                     With(GetItems, <<"responses">>,
                                          With(Item(GetItems, <<"responses">>), <<"400">>,
                                               ResponseRef("Generic400")))>> >>)>> >>)),
          <<"components">>, <<"responses">>, PDict(<< <<<<"Generic400">>, Response400>> >>))

\* the files of the calls: a document that resolves a response reference in its
\* components, one with a subscriptions path, the compliant document, and a file
\* that is not there
ThrFiles == <<
    Loaded(ItemStatus, ByReference(CompliantDoc)),
    Loaded(ItemStatus, SubscriptionPath(CompliantDoc)),
    Loaded(ItemStatus, CompliantDoc),
    [stem |-> ItemStatus, load |-> "missing", doc |-> PNone] >>

\* the two calls
Callers == {1, 2}

\* self.api_spec never leaving the document of the first file
StaleSpec(stored) == ThrFiles[1].doc

\* self.api_spec as a document
StoredSpec(stored) == IF stored = NoFile THEN PNone ELSE ThrFiles[stored].doc

\* the locals of a call that has not begun
NoLocals == [paths_spec |-> NoFile, section_spec |-> NoFile, api_type |-> "", result |-> <<>>]

InitCalls ==
    /\ review_type \in ReviewTypes
    /\ expected_commonalities_version = ImplementedVersion
    /\ api_spec = NoFile
    /\ results = <<>>
    /\ thr_files \in {f \in [Callers -> 1..Len(ThrFiles)] : f[1] # f[2]}
    /\ thr_pc = [t \in Callers |-> "load"]
    /\ thr_local = [t \in Callers |-> NoLocals]
    /\ thr_seen = [t \in Callers |-> <<>>]
    /\ ClsIdle /\ MapIdle /\ NormIdle /\ ConIdle /\ MainIdle /\ SumIdle /\ RespIdle /\ ChkIdle

\* the file of a call, and what it has read of self.api_spec (its own document where
\* it has not read it)
FileOf(t) == ThrFiles[thr_files[t]]
ReadSpec(t, stored) == IF stored = NoFile THEN FileOf(t).doc ELSE StoredSpec(stored)

\* lines 203-240: the file is loaded and stored in self.api_spec, result.api_type
\* is assigned, and the checks up to the servers run; an exception goes to line 272
Begin(t) ==
    /\ thr_pc[t] = "load"
    /\ api_spec' = IF FileOf(t).load = "ok" THEN thr_files[t] ELSE api_spec
    /\ IF RaisesEarly(FileOf(t), expected_commonalities_version)
       THEN thr_pc' = [thr_pc EXCEPT ![t] = "rest"] /\ UNCHANGED thr_local
       ELSE /\ thr_pc' = [thr_pc EXCEPT ![t] = "paths"]
            /\ thr_local' = [thr_local EXCEPT ![t].api_type = DetectApiType(FileOf(t).doc)]
    /\ UNCHANGED <<review_type, expected_commonalities_version, results, clsVars, mapVars,
                   normVars, conVars, mainVars, sumVars, respVars, chkVars, thr_files, thr_seen>>

\* line 241: _validate_paths, which resolves response references in self.api_spec
Paths(t) ==
    /\ thr_pc[t] = "paths"
    /\ thr_local' = [thr_local EXCEPT ![t].paths_spec = api_spec]
    /\ thr_pc' = [thr_pc EXCEPT ![t] =
                      IF ValidatePaths(FileOf(t).doc, StoredSpec(api_spec)).raised
                      THEN "rest" ELSE "components"]
    /\ UNCHANGED <<valVars, clsVars, mapVars, normVars, conVars, mainVars, sumVars, respVars, chkVars,
                   thr_files, thr_seen>>

\* lines 786-797: _validate_components stores its argument in self.api_spec, unless
\* the document has no components
Components(t) ==
    /\ thr_pc[t] = "components"
    /\ LET components == Get(FileOf(t).doc, <<"components">>, EmptyDict)
       IN IF Truthy(components)
          THEN api_spec' = thr_files[t] /\ thr_pc' = [thr_pc EXCEPT ![t] = "section"]
          ELSE api_spec' = api_spec /\ thr_pc' = [thr_pc EXCEPT ![t] = "rest"]
    /\ UNCHANGED <<review_type, expected_commonalities_version, results, clsVars, mapVars,
                   normVars, conVars, mainVars, sumVars, respVars, chkVars, thr_files, thr_local,
                   thr_seen>>

\* lines 799-859: the schemas, and _validate_security_schemes_section, which detects
\* the type of self.api_spec
Section(t) ==
    /\ thr_pc[t] = "section"
    /\ thr_local' = [thr_local EXCEPT ![t].section_spec = api_spec]
    /\ thr_pc' = [thr_pc EXCEPT ![t] = "rest"]
    /\ thr_seen' = [thr_seen EXCEPT ![t] =
                       IF ValidateComponents(FileOf(t).doc, StoredSpec(api_spec)).raised
                       THEN @
                       ELSE Append(@, <<"security schemes",
                                        DetectApiType(StoredSpec(api_spec))>>)]
    /\ UNCHANGED <<valVars, clsVars, mapVars, normVars, conVars, mainVars, sumVars, respVars, chkVars,
                   thr_files>>

\* the type-aware steps of lines 243-270 that a call with this result went through,
\* each with the type it acted on: _check_event_subscription_compliance detects the
\* type of its argument, the choice of the type-specific check and of the manual
\* checks goes by result.api_type
TypeAware(result, doc, api_type) ==
    LET called(name) == \E i \in 1..Len(result.checks_performed) :
                           result.checks_performed[i] = name
        raised == \E i \in 1..Len(result.issues) : result.issues[i] = ValidationError
    IN (IF called("Event subscription compliance validation")
        THEN << <<"event subscription", DetectApiType(doc)>> >>
        ELSE <<>>)
       \o (IF /\ called("Event subscription compliance validation")
              /\ \/ ~raised
                 \/ called("Explicit subscription API compliance validation")
                 \/ called("Implicit subscription API compliance validation")
           THEN << <<"type-specific", api_type>> >>
           ELSE <<>>)
       \o (IF api_type # "" /\ ~raised
           THEN << <<"manual checks", api_type>> >>
           ELSE <<>>)

\* lines 243-277: the other checks, the except clause of line 272, and the return of
\* the result
Rest(t) ==
    /\ thr_pc[t] = "rest"
    /\ thr_local' = [thr_local EXCEPT ![t].result =
                        <<ValidateApiFileWith(FileOf(t), ReadSpec(t, thr_local[t].paths_spec),
                                              ReadSpec(t, thr_local[t].section_spec),
                                              review_type, expected_commonalities_version)>>]
    /\ thr_seen' = [thr_seen EXCEPT ![t] =
                       @ \o TypeAware(thr_local'[t].result[1], FileOf(t).doc,
                                      thr_local[t].api_type)]
    /\ thr_pc' = [thr_pc EXCEPT ![t] = "done"]
    /\ UNCHANGED <<valVars, clsVars, mapVars, normVars, conVars, mainVars, sumVars, respVars, chkVars,
                   thr_files>>

\* the steps of the two calls in any order
NextCalls ==
    \E t \in Callers :
        \/ Begin(t)
        \/ Paths(t)
        \/ Components(t)
        \/ Section(t)
        \/ Rest(t)

SpecCalls == InitCalls /\ [][NextCalls]_vars

\* no other call is under way
Alone(t) == \A u \in Callers \ {t} : thr_pc[u] \in {"load", "done"}

\* the steps of the two calls, one call after the other
NextOneByOne ==
    \E t \in Callers :
        \/ Alone(t) /\ Begin(t)
        \/ Alone(t) /\ Paths(t)
        \/ Alone(t) /\ Components(t)
        \/ Alone(t) /\ Section(t)
        \/ Alone(t) /\ Rest(t)

SpecOneByOne == InitCalls /\ [][NextOneByOne]_vars

(***************************************************************************)
(* Check runs: the responses an operation defines                          *)
(***************************************************************************)

\* the status codes an operation of a run may define
PresenceCodes == {<<"200">>} \cup {ErrorCodes[i] : i \in 1..Len(ErrorCodes)}

\* the operations of the runs: a method and the codes its responses define
PresenceCases == [method : {<<"get">>, <<"post">>, <<"head">>}, codes : SUBSET PresenceCodes]

\* the responses object with these codes, in the order of the status codes
PresenceResponses(codes) ==
    LET order == << <<"200">> >> \o ErrorCodes
        RECURSIVE items(_)
        items(k) ==
            IF k > Len(order) THEN <<>>
            ELSE (IF order[k] \in codes
                  THEN << <<order[k], IF order[k] = <<"200">>
                                      THEN PDict(<< <<<<"description">>, PStr(<<"OK">>)>> >>)
                                      ELSE Response400>> >>
                  ELSE <<>>) \o items(k + 1)
    IN PDict(items(1))

\* the compliant document with this operation as the only one of /items
PresenceDoc(c) ==
    With(CompliantDoc, <<"paths">>,
         PDict(<< <<<<"/", "items">>,
                    PDict(<< <<c.method,
                               With(With(GetItems, <<"responses">>, PresenceResponses(c.codes)),
                                    <<"security">>,
                                    PList(<<PDict(<< <<<<"openId">>, PList(<<>>)>> >>)>>))>> >>)>> >>))

InitPresence ==
    /\ review_type = "release-candidate"
    /\ expected_commonalities_version = ImplementedVersion
    /\ api_spec = NoFile
    /\ results = <<>>
    /\ chk_case \in PresenceCases
    /\ chk_out = <<>>
    /\ ClsIdle /\ MapIdle /\ NormIdle /\ ConIdle /\ MainIdle /\ SumIdle /\ RespIdle /\ ThrIdle

\* validator.validate_api_file(api_file) for the document of the case
ValidatePresence ==
    /\ chk_out = <<>>
    /\ chk_out' = <<ValidateApiFile(Loaded(ItemStatus, PresenceDoc(chk_case)), review_type,
                                    expected_commonalities_version)>>
    /\ UNCHANGED <<valVars, clsVars, mapVars, normVars, conVars, mainVars, sumVars, respVars,
                   thrVars, chk_case>>

NextPresence == ValidatePresence

SpecPresence == InitPresence /\ [][NextPresence]_vars

(***************************************************************************)
(* Check runs: the description templates                                   *)
(***************************************************************************)

\* the descriptions of the runs: one template complete, of the other the phrases kept,
\* written plainly or with markdown marks and wider white space
TemplateCases ==
    [template : {"authorization", "error responses"},
     kept : SUBSET (1..Len(AuthComponents)),
     style : {"plain", "marked"},
     version : ExpectedVersions]

\* the required phrases of a template
ComponentsOf(template) == IF template = "authorization" THEN AuthComponents ELSE ErrorComponents

\* a phrase as a description has it
Phrase(component, style) ==
    IF style = "plain" THEN component \o <<"\n">>
    ELSE <<"*">> \o component \o <<"*", " ", "\n">>

\* the phrases of a template with the numbers in kept, in template order
RECURSIVE Phrases(_, _, _, _)
Phrases(required, kept, style, k) ==
    IF k > Len(required) THEN <<>>
    ELSE (IF k \in kept THEN Phrase(required[k], style) ELSE <<>>)
         \o Phrases(required, kept, style, k + 1)

\* info.description of a case
TemplateDescription(c) ==
    LET all == 1..Len(AuthComponents)
    IN Phrases(AuthComponents, IF c.template = "authorization" THEN c.kept ELSE all, c.style, 1)
       \o Phrases(ErrorComponents, IF c.template = "authorization" THEN all ELSE c.kept,
                  c.style, 1)

TemplateDoc(c) ==
    With2(CompliantDoc, <<"info">>, <<"description">>, PStr(TemplateDescription(c)))

InitTemplate ==
    /\ review_type = "release-candidate"
    /\ expected_commonalities_version \in ExpectedVersions
    /\ api_spec = NoFile
    /\ results = <<>>
    /\ chk_case \in {c \in TemplateCases : c.version = expected_commonalities_version}
    /\ chk_out = <<>>
    /\ ClsIdle /\ MapIdle /\ NormIdle /\ ConIdle /\ MainIdle /\ SumIdle /\ RespIdle /\ ThrIdle

\* validator.validate_api_file(api_file) for the document of the case
ValidateTemplates ==
    /\ chk_out = <<>>
    /\ chk_out' = <<ValidateApiFile(Loaded(ItemStatus, TemplateDoc(chk_case)), review_type,
                                    expected_commonalities_version)>>
    /\ UNCHANGED <<valVars, clsVars, mapVars, normVars, conVars, mainVars, sumVars, respVars,
                   thrVars, chk_case>>

NextTemplate == ValidateTemplates

SpecTemplate == InitTemplate /\ [][NextTemplate]_vars

(***************************************************************************)
(* Check runs: the security schemes of the components                      *)
(***************************************************************************)

\* what the documents of the runs have for components: no such key, an empty mapping,
\* the schemas alone, or the schemas and the security schemes
ComponentsKinds == {"absent", "empty", "schemas", "schemes"}

\* the documents of the runs: what makes their type, their components, and whether
\* the security schemes have openId and notificationsBearerAuth
SchemeCases ==
    {c \in [kind : {"regular", "callbacks", "subscriptions"}, components : ComponentsKinds,
            openId : BOOLEAN, bearer : BOOLEAN] :
        c.components # "schemes" => ~c.openId /\ ~c.bearer}

BearerScheme ==
    PDict(<< <<<<"type">>, PStr(<<"http">>)>>,
             <<<<"scheme">>, PStr(<<"bearer">>)>>,
             <<<<"bearerFormat">>, PStr(<<"{$request.body#/sinkCredential.credentialType}">>)>> >>)

\* components.securitySchemes of a case
SchemesOf(c) ==
    PDict((IF c.openId THEN << <<<<"openId">>, OpenIdScheme>> >> ELSE <<>>)
          \o (IF c.bearer THEN << <<<<"notificationsBearerAuth">>, BearerScheme>> >> ELSE <<>>))

\* the document of a case
SchemeDoc(c) ==
    LET typed == IF c.kind = "subscriptions" THEN SubscriptionPath(CompliantDoc)
                 ELSE IF c.kind = "callbacks"
                 THEN With(CompliantDoc, <<"paths">>,
                           PDict(<< <<<<"/", "items">>, ClsPathItems[2]>> >>))
                 ELSE CompliantDoc
        schemas == Item(Item(CompliantDoc, <<"components">>), <<"schemas">>)
    IN IF c.components = "absent" THEN Without(typed, <<"components">>)
       ELSE IF c.components = "empty" THEN With(typed, <<"components">>, EmptyDict)
       ELSE IF c.components = "schemas"
       THEN With(typed, <<"components">>, PDict(<< <<<<"schemas">>, schemas>> >>))
       ELSE With(typed, <<"components">>,
                 PDict(<< <<<<"schemas">>, schemas>>, <<<<"securitySchemes">>, SchemesOf(c)>> >>))

InitSchemes ==
    /\ review_type \in ReviewTypes
    /\ expected_commonalities_version = ImplementedVersion
    /\ api_spec = NoFile
    /\ results = <<>>
    /\ chk_case \in SchemeCases
    /\ chk_out = <<>>
    /\ ClsIdle /\ MapIdle /\ NormIdle /\ ConIdle /\ MainIdle /\ SumIdle /\ RespIdle /\ ThrIdle

\* validator.validate_api_file(api_file) for the document of the case
ValidateSchemes ==
    /\ chk_out = <<>>
    /\ chk_out' = <<ValidateApiFile(Loaded(ItemStatus, SchemeDoc(chk_case)), review_type,
                                    expected_commonalities_version)>>
    /\ UNCHANGED <<valVars, clsVars, mapVars, normVars, conVars, mainVars, sumVars, respVars,
                   thrVars, chk_case>>

NextSchemes == ValidateSchemes

SpecSchemes == InitSchemes /\ [][NextSchemes]_vars

(***************************************************************************)
(* Check runs: a test file and its specification                           *)
(***************************************************************************)

\* info.version of the specifications of the runs
TestVersions == {<<"1", ".", "0", ".", "0">>, <<"0", ".", "2", ".", "0">>, <<"wip">>}

\* the operation identifiers the test files of the runs ask for
TestTargets == {<<"getItems">>, <<"create">>}

\* the number of requests of a test file
MaxRequests == 2

\* the pairs of the runs: the method of the operation getItems and the version of the
\* specification; the line of the test file that holds the Feature header (0: none),
\* what the header says of the version, and the request targets of the test body
TestFileCases ==
    [method : {<<"get">>, <<"head">>},
     version : TestVersions,
     header : 0..3,
     mention : {"exact", "v", "other", "none"},
     requests : UNION {[1..n -> TestTargets] : n \in 0..MaxRequests}]

\* the specification of a case
TestFileDoc(c) ==
    With(With2(CompliantDoc, <<"info">>, <<"version">>, PStr(c.version)),
         <<"paths">>, PDict(<< <<<<"/", "items">>, PDict(<< <<c.method, GetItems>> >>)>> >>))

\* the Feature header of a case
FeatureLine(c) ==
    <<"Feature:", " ", "item", " ", "status">>
    \o (IF c.mention = "exact" THEN <<" ">> \o c.version
        ELSE IF c.mention = "v" THEN <<" ", "v">> \o c.version
        ELSE IF c.mention = "other" THEN <<" ", "9", ".", "9", ".", "9">>
        ELSE <<>>)
    \o <<"\n">>

\* the content of the test file of a case
TestFileContent(c) ==
    LET remark == <<"#", " ", "language:", " ", "en", "\n">>
        RECURSIVE body(_)
        body(i) == IF i > Len(c.requests) THEN <<>>
                   ELSE <<"When", " ", "the", " ", "request", " ", "\"">> \o c.requests[i]
                        \o <<"\"", " ", "is", " ", "sent", "\n">> \o body(i + 1)
    IN (IF c.header = 0 THEN remark
        ELSE IF c.header = 1 THEN FeatureLine(c)
        ELSE IF c.header = 2 THEN remark \o FeatureLine(c)
        ELSE remark \o remark \o FeatureLine(c))
       \o body(1)

InitTestFile ==
    /\ review_type \in ReviewTypes
    /\ expected_commonalities_version = ImplementedVersion
    /\ api_spec = NoFile
    /\ results = <<>>
    /\ chk_case \in TestFileCases
    /\ chk_out = <<>>
    /\ ClsIdle /\ MapIdle /\ NormIdle /\ ConIdle /\ MainIdle /\ SumIdle /\ RespIdle /\ ThrIdle

\* lines 1712-1733 of validate_test_alignment_single for the specification of the case
\* and one assigned test file: api_version, _extract_operation_ids, _validate_test_file
ValidateTestOfCase ==
    /\ chk_out = <<>>
    /\ LET spec == TestFileDoc(chk_case)
           api_version == Text(Get(Get(spec, <<"info">>, EmptyDict), <<"version">>, EmptyStr))
       IN chk_out' = <<ValidateTestFile([readable |-> TRUE, content |-> TestFileContent(chk_case)],
                                        TestFilePath(ItemStatus), ItemStatus, api_version,
                                        ExtractOperationIds(spec).ids, review_type)>>
    /\ UNCHANGED <<valVars, clsVars, mapVars, normVars, conVars, mainVars, sumVars, respVars,
                   thrVars, chk_case>>

NextTestFile == ValidateTestOfCase

SpecTestFile == InitTestFile /\ [][NextTestFile]_vars

(***************************************************************************)
(* Check runs: a shared schema and the properties it declares              *)
(***************************************************************************)

\* the names the properties of the runs have, in the order the files write them
PropertyNames == << <<"code">>, <<"message">>, <<"status">>, <<"description">>, <<"example">> >>

\* two files that define ErrorInfo: the properties each declares, and whether the
\* second file annotates the schema
PropertyCases ==
    [first : SUBSET (1..Len(PropertyNames)), second : SUBSET (1..Len(PropertyNames)),
     annotated : BOOLEAN]

\* an object schema that declares the properties
DeclaringSchema(declared) ==
    LET names == SelectSeq(PropertyNames,
                           LAMBDA name : \E i \in declared : PropertyNames[i] = name)
    IN PDict(<< <<<<"type">>, PStr(<<"object">>)>>,
                <<<<"properties">>,
                  PDict([i \in 1..Len(names) |-> <<names[i], StringSchema>>])>> >>)

\* the two files of a case
PropertyFiles(c) ==
    << Loaded(<<"alpha">>, ErrorInfoAs(CompliantDoc, DeclaringSchema(c.first))),
       Loaded(<<"beta">>,
              ErrorInfoAs(CompliantDoc,
                          IF c.annotated THEN Annotated(DeclaringSchema(c.second), "documented")
                          ELSE DeclaringSchema(c.second))) >>

InitProperties ==
    /\ review_type = "release-candidate"
    /\ expected_commonalities_version = ImplementedVersion
    /\ api_spec = NoFile
    /\ results = <<>>
    /\ chk_case \in PropertyCases
    /\ chk_out = <<>>
    /\ ClsIdle /\ MapIdle /\ NormIdle /\ ConIdle /\ MainIdle /\ SumIdle /\ RespIdle /\ ThrIdle

\* validator.validate_project_consistency(api_files) for the two files of the case
CheckProperties ==
    /\ chk_out = <<>>
    /\ chk_out' = <<ValidateProjectConsistency(PropertyFiles(chk_case))>>
    /\ UNCHANGED <<valVars, clsVars, mapVars, normVars, conVars, mainVars, sumVars, respVars,
                   thrVars, chk_case>>

NextProperties == CheckProperties

SpecProperties == InitProperties /\ [][NextProperties]_vars

(***************************************************************************)
(* Properties of the validation runs                                       *)
(***************************************************************************)

Criticals(issues) == SelectSeq(issues, LAMBDA i : i.severity = "Critical")

\* the runs of validate_api_file on the document doc
RunsOn(doc) == {i \in 1..Len(results) : ApiFiles[results[i].file].doc = doc}

\* the runs on a loaded document with info.version = 'wip'
WipRuns ==
    {i \in 1..Len(results) :
        /\ ApiFiles[results[i].file].load = "ok"
        /\ IsDict(ApiFiles[results[i].file].doc)
        /\ Get(Get(ApiFiles[results[i].file].doc, <<"info">>, EmptyDict), <<"version">>, PNone)
               = PStr(<<"wip">>)}

ServerUrls(i) ==
    LET servers == Servers(ApiFiles[results[i].file].doc)
    IN [k \in 1..Len(servers) |-> Text(Get(servers[k], <<"url">>, EmptyStr))]

SomeUrlVwip(i) == \E k \in 1..Len(ServerUrls(i)) : Contains(ServerUrls(i)[k], <<"vwip">>)
FirstUrlVwip(i) == ServerUrls(i) # <<>> /\ Contains(ServerUrls(i)[1], <<"vwip">>)

\* an issue of the work-in-progress check: about the version, or about the marker
\* of the server URL
Lifecycle(issue) ==
    \/ issue.category = "Version"
    \/ /\ issue.category = "Server URL"
       /\ issue.description \in
             { <<"WIP review expects server URL to contain 'vwip'">>,
               <<"Work-in-progress server URL ('vwip') cannot be used in release">> }

CriticalAt(i, location) ==
    \E k \in 1..Len(results[i].result.issues) :
        /\ results[i].result.issues[k].severity = "Critical"
        /\ results[i].result.issues[k].location = location

\* C1, as stated: the document of the listed fields alone, in a file named after
\* its api-name and reviewed as release-candidate, has no Critical issue
C1_Listed ==
    review_type = "release-candidate" =>
        \A i \in RunsOn(ListedDoc) : Criticals(results[i].result.issues) = <<>>

\* C1: the listed document that also carries an externalDocs object with a
\* description and a URL, and an openIdConnectUrl in its openId scheme, in a file
\* named after its api-name and reviewed as release-candidate, has no Critical issue
C1_Compliant ==
    review_type = "release-candidate" =>
        \A i \in RunsOn(CompliantDoc) :
            /\ Criticals(results[i].result.issues) = <<>>
            /\ results[i].result.api_name = ApiFiles[results[i].file].stem

C1_Witness ==
    /\ review_type = "release-candidate"
    /\ \E i \in RunsOn(CompliantDoc) :
          /\ results[i].result.issues # <<>>
          /\ Len(results[i].result.checks_performed) > 1

\* C2, as stated: reviewed as wip, a document of version 'wip' with a server URL
\* that contains 'vwip' gets no issue from the work-in-progress check
C2_NoLifecycleIssue ==
    review_type = "wip" =>
        \A i \in WipRuns :
            SomeUrlVwip(i) =>
                \A k \in 1..Len(results[i].result.issues) :
                    ~Lifecycle(results[i].result.issues[k])

\* C3, as stated: reviewed as release-candidate or public-release, a document of
\* version 'wip' with some server URL that contains 'vwip' has a Critical issue at
\* info.version and a Critical issue at the server URL
C3_AnyServer ==
    review_type # "wip" =>
        \A i \in WipRuns :
            SomeUrlVwip(i) =>
                /\ CriticalAt(i, <<"info.version">>)
                /\ \E k \in 1..Len(ServerUrls(i)) :
                      /\ Contains(ServerUrls(i)[k], <<"vwip">>)
                      /\ CriticalAt(i, <<"servers[">> \o Dec(k - 1) \o <<"].url">>)

\* C3: reviewed as release-candidate or public-release, a document of version
\* 'wip' whose first server URL contains 'vwip' has a Critical issue at
\* info.version and a Critical issue at servers[0].url
C3_FirstServer ==
    review_type # "wip" =>
        \A i \in WipRuns :
            FirstUrlVwip(i) =>
                /\ CriticalAt(i, <<"info.version">>)
                /\ CriticalAt(i, <<"servers[0].url">>)

C3_Witness ==
    /\ review_type = "public-release"
    /\ \E i \in WipRuns :
          /\ FirstUrlVwip(i)
          /\ Len(ServerUrls(i)) = 2
          /\ CriticalAt(i, <<"servers[0].url">>)

\* the Critical issues about a missing schema called name
Naming(issues, name) ==
    SelectSeq(Criticals(issues), LAMBDA i : Contains(i.description, <<name>>))

\* C4, as stated: the document of the listed fields alone, without the two
\* schemas, has two Critical issues in all, one naming each schema
C4_Listed ==
    \A i \in RunsOn(NoSchemas(ListedDoc)) :
        /\ Len(Criticals(results[i].result.issues)) = 2
        /\ Len(Naming(results[i].result.issues, "ErrorInfo")) = 1
        /\ Len(Naming(results[i].result.issues, "XCorrelator")) = 1

\* C4: the compliant document (externalDocs included) without the ErrorInfo and
\* XCorrelator schemas has two Critical issues in all, one naming ErrorInfo and
\* one naming XCorrelator
C4_Compliant ==
    \A i \in RunsOn(NoSchemas(CompliantDoc)) :
        /\ Len(Criticals(results[i].result.issues)) = 2
        /\ Len(Naming(results[i].result.issues, "ErrorInfo")) = 1
        /\ Len(Naming(results[i].result.issues, "XCorrelator")) = 1

C4_Witness ==
    \E i \in RunsOn(NoSchemas(CompliantDoc)) :
        /\ Len(results[i].result.issues) > 2
        /\ results[i].result.api_type = REGULAR

(***************************************************************************)
(* Properties of the classifier runs                                       *)
(***************************************************************************)

HasSubscriptionPath(doc) ==
    LET paths == Get(doc, <<"paths">>, EmptyDict)[2]
    IN \E i \in 1..Len(paths) : Contains(Lower(paths[i][1]), <<"/", "subscription">>)

\* C6: a document with a path key that contains a subscription-path substring,
\* whatever its case, is an Explicit Subscription API, whatever callbacks,
\* response schemas and schema names it has
C6_PathFirst ==
    (cls_doc # <<>> /\ HasSubscriptionPath(ClsDoc(cls_doc))) =>
        /\ cls_first # "" => cls_first = EXPLICIT_SUBSCRIPTION
        /\ cls_second # "" => cls_second = EXPLICIT_SUBSCRIPTION

C6_Witness ==
    /\ cls_first = EXPLICIT_SUBSCRIPTION
    /\ cls_doc \in {<<2, 2, 5>>, <<3, 3, 5>>}

\* the case has no subscription path, no callbacks and no event keyword in a response
\* schema: the schema names decide
NamesDecide == cls_doc # <<>> /\ cls_doc[1] \in {1, 4} /\ cls_doc[2] \in {1, 4}

\* a schema name has one of these words, whatever its case
NameHas(name, words) == \E w \in words : Contains(Lower(name), w)

\* C26 as stated: when the schema names decide, a document with a schema name that
\* contains 'subscription' is an Explicit Subscription API, one whose schema names
\* contain webhook, event or notification but never 'subscription' is an Implicit
\* Subscription API, and one with no such name is a Regular API
C26_AnySubscriptionName ==
    (NamesDecide /\ cls_first # "") =>
        LET names == ClsSchemaNames[cls_doc[3]]
            some(words) == \E i \in 1..Len(names) : NameHas(names[i], words)
        IN cls_first = (IF some({<<"subscription">>}) THEN EXPLICIT_SUBSCRIPTION
                        ELSE IF some({<<"webhook">>, <<"event">>, <<"notification">>})
                        THEN IMPLICIT_SUBSCRIPTION
                        ELSE REGULAR)

\* C26: when the schema names decide, the first schema name in document order that
\* contains subscription, webhook, event or notification gives the type: Explicit
\* Subscription API if it contains 'subscription', Implicit Subscription API if not;
\* a document with no such name is a Regular API
C26_FirstNameDecides ==
    (NamesDecide /\ cls_first # "") =>
        LET names == ClsSchemaNames[cls_doc[3]]
            all == {<<"subscription">>, <<"webhook">>, <<"event">>, <<"notification">>}
            hits == {i \in 1..Len(names) : NameHas(names[i], all)}
            first == CHOOSE i \in hits : \A j \in hits : i <= j
        IN cls_first = (IF hits = {} THEN REGULAR
                        ELSE IF NameHas(names[first], {<<"subscription">>})
                        THEN EXPLICIT_SUBSCRIPTION
                        ELSE IMPLICIT_SUBSCRIPTION)

\* the document with the schemas ErrorInfo, Event and Subscription, in this order, and
\* nothing else that tells a type, has been classified
C26_Witness ==
    /\ cls_doc = <<1, 1, 3>>
    /\ cls_first = IMPLICIT_SUBSCRIPTION

(***************************************************************************)
(* Properties of the mapper runs                                           *)
(***************************************************************************)

\* the names the test base name equals or begins with, a dash put after them
MatchingNames(test) ==
    {all_api_names[i] : i \in {k \in 1..Len(all_api_names) :
        test = all_api_names[k] \/ StartsWith(test, all_api_names[k] \o <<"-">>)}}

Assigned == map_pc \in {"validate", "done", "raised"}

\* C7: a test base name is assigned to the longest api-name it equals or begins
\* with (followed by a dash), whatever the order of the specifications, and to
\* none when there is no such name; 'foo-bar-create' goes to 'foo-bar', not 'foo'
C7_LongestPrefix ==
    Assigned =>
        \A k \in 1..Len(all_test_files) :
            LET test == all_test_files[k]
            IN IF MatchingNames(test) = {}
               THEN ~InDict(assignments, test)
               ELSE /\ InDict(assignments, test)
                    /\ Lookup(assignments, test) \in MatchingNames(test)
                    /\ \A n \in MatchingNames(test) :
                          StrLen(n) <= StrLen(Lookup(assignments, test))

C7_Witness ==
    /\ map_pc = "done"
    /\ all_api_names = << <<"foo">>, <<"foo", "-", "bar">> >>
    /\ Lookup(assignments, <<"foo", "-", "bar", "-", "create">>) = <<"foo", "-", "bar">>
    /\ Lookup(api_to_test, <<"foo">>) = <<>>

\* the places <<result, issue>> of the orphan issues about the test base name
OrphanIssues(test) ==
    {p \in UNION {{<<i, k>> : k \in 1..Len(test_results[i].issues)} : i \in 1..Len(test_results)} :
        /\ test_results[p[1]].issues[p[2]].category = "Orphan Test Files"
        /\ test_results[p[1]].issues[p[2]].location = TestDir \o test \o <<".feature">>}

\* C8: when the mapper returns its results for a non-empty list of
\* specifications, each test base name that matches no api-name has exactly one
\* orphan issue in all of them, and that issue is in the first result
C8_OrphanOnce ==
    (map_pc = "done" /\ map_case.exists) =>
        \A k \in 1..Len(all_test_files) :
            MatchingNames(all_test_files[k]) = {} =>
                /\ Cardinality(OrphanIssues(all_test_files[k])) = 1
                /\ \A p \in OrphanIssues(all_test_files[k]) : p[1] = 1

C8_Witness ==
    /\ map_pc = "done"
    /\ Len(test_results) = 2
    /\ Len(orphan_test_files) = 2
    /\ Cardinality(OrphanIssues(<<"foo", "bar">>)) = 1

\* C9, as stated: the mapper never raises, and what it returns is one result
\* for each specification, in the order of the specifications
C9_OnePerSpec ==
    /\ map_pc # "raised"
    /\ map_pc = "done" =>
          /\ Len(test_results) = Len(api_files)
          /\ \A i \in 1..Len(api_files) : test_results[i].api_file = api_files[i].stem

\* the results that list the test base name among their test_files
Holders(test) ==
    {i \in 1..Len(test_results) :
        \E k \in 1..Len(test_results[i].test_files) :
            test_results[i].test_files[k] = TestFilePath(test)}

\* C28: when the mapper returns, every test base name of the test directory is either
\* in the test_files of exactly one result or reported as an orphan, never both and
\* never in the test_files of two results, for every list of specifications, those
\* that share an api-name included
C28_Partition ==
    (map_pc = "done" /\ map_case.exists) =>
        \A k \in 1..Len(all_test_files) :
            LET test == all_test_files[k]
            IN \/ Cardinality(Holders(test)) = 1 /\ OrphanIssues(test) = {}
               \/ Holders(test) = {} /\ OrphanIssues(test) # {}

(***************************************************************************)
(* Properties of schema normalisation                                      *)
(***************************************************************************)

\* C10: normalising a normal form gives it back, and two schemas that differ in
\* their description, example and examples annotations alone have equal normal
\* forms
C10_Normalisation ==
    /\ Len(norm_out) = 2 => norm_out[2] = norm_out[1]
    /\ (Len(norm_out) >= 1 /\ Skeleton(norm_in[1]) = Skeleton(norm_in[2])) =>
          PyEq(norm_out[1][1], norm_out[1][2])

C10_Witness ==
    /\ Len(norm_out) = 2
    /\ norm_in = << <<"object", "documented", "none", "described">>,
                    <<"reordered", "none", "documented", "none">> >>
    /\ norm_out[1][1] # NormSchema(norm_in[1])

(***************************************************************************)
(* Properties of the consistency runs                                      *)
(***************************************************************************)

\* the files of the run, and whether the call has returned or raised
ConRun == [i \in 1..Len(con_files) |-> ConFiles[con_files[i]]]
ConReturned == con_result # <<>> /\ ~con_result[1].raised

\* what the files of the consistency runs define, written down from the documents: the
\* files that define a shared schema, and the structure of each definition once
\* examples and descriptions are set aside
Defines(stem, name) ==
    /\ name \in {<<"ErrorInfo">>, <<"XCorrelator">>}
    /\ stem \in {<<"alpha">>, <<"beta">>, <<"gamma">>, <<"delta">>}
Structure(stem, name) ==
    IF name = <<"ErrorInfo">>
    THEN (IF stem = <<"gamma">> THEN "numeric code" ELSE "text code")
    ELSE (IF stem = <<"delta">> THEN "integer" ELSE "string")

\* the 'Schema Consistency' issues of the run that name the schema
Reported(name) ==
    SelectSeq(con_result[1].result.issues,
              LAMBDA issue : issue.category = "Schema Consistency"
                             /\ Contains(issue.description, name))

\* C11: for each shared-schema name that two or more loaded files define, the result
\* holds one Medium 'Schema Consistency' issue for each defining file whose definition
\* differs in structure from that of the first defining file, naming these two files,
\* and no other 'Schema Consistency' issue for the name; so there is none iff all the
\* definitions are structurally equal
C11_SharedSchemas ==
    (ConReturned /\ Len(LoadedSpecs(ConRun)) >= 2) =>
        \A n \in 1..Len(CommonSchemaNames) :
            LET name == CommonSchemaNames[n]
                defining == SelectSeq(LoadedSpecs(ConRun), LAMBDA f : Defines(f.stem, name))
                differing ==
                    SelectSeq(Tail(defining),
                              LAMBDA f : Structure(f.stem, name) # Structure(defining[1].stem, name))
            IN Len(defining) >= 2 =>
                  /\ Len(Reported(name)) = Len(differing)
                  /\ \A i \in 1..Len(differing) :
                        /\ Reported(name)[i].severity = "Medium"
                        /\ Reported(name)[i].location =
                              FileName(defining[1]) \o <<" vs ">> \o FileName(differing[i])

\* three files define ErrorInfo, one of them differs from the first and is reported,
\* the other differs in annotations or key order only and is not
C11_Witness ==
    /\ ConReturned
    /\ Len(SelectSeq(ConRun, LAMBDA f : Defines(f.stem, <<"ErrorInfo">>))) = 3
    /\ Len(Reported(<<"ErrorInfo">>)) = 1
    /\ ConRun[1].stem # <<"gamma">>

\* C18: validate_project_consistency returns a result for every list of files: without
\* issues for fewer than two files, and with a Critical issue for each file that does
\* not load or is not a mapping
C18_AlwaysResult ==
    con_result # <<>> =>
        /\ ~con_result[1].raised
        /\ Len(con_files) < 2 => con_result[1].result.issues = <<>>
        /\ Len(con_files) >= 2 =>
              \A i \in 1..Len(ConRun) :
                  (ConRun[i].load # "ok" \/ ~IsDict(ConRun[i].doc)) =>
                      \E k \in 1..Len(con_result[1].result.issues) :
                          /\ con_result[1].result.issues[k].severity = "Critical"
                          /\ con_result[1].result.issues[k].location = FileName(ConRun[i])

(***************************************************************************)
(* Properties of main                                                      *)
(***************************************************************************)

\* a result with a Critical issue
HasCritical(result) ==
    \E k \in 1..Len(result.issues) : result.issues[k].severity = "Critical"

\* some ValidationResult, the ConsistencyResult or some TestAlignmentResult of the
\* run has a Critical issue
SomeCritical ==
    \/ \E i \in 1..Len(results) : HasCritical(results[i].result)
    \/ \E i \in 1..Len(consistency_result) : HasCritical(consistency_result[i])
    \/ \E i \in 1..Len(main_tests) : HasCritical(main_tests[i])

\* C12: main exits with status 0 iff no ValidationResult, ConsistencyResult or
\* TestAlignmentResult of the run has a Critical issue, and with status 1 otherwise
C12_ExitContract ==
    exit_status # <<>> =>
        /\ exit_status \in {<<0>>, <<1>>}
        /\ exit_status = <<0>> <=> ~SomeCritical

\* status 1 that is due to the test alignment alone
C12_Witness ==
    /\ exit_status = <<1>>
    /\ \A i \in 1..Len(results) : ~HasCritical(results[i].result)
    /\ consistency_result # <<>> /\ ~HasCritical(consistency_result[1])
    /\ \E i \in 1..Len(main_tests) : HasCritical(main_tests[i])

\* C14: main holds one ValidationResult per file, in the order of the files, once the
\* loop has ended, and the results of the files gone through before; the result of a
\* file that is missing or does not parse to a mapping has one issue, a Critical one,
\* and the files after it are gone through as well
C14_OnePerFile ==
    /\ Len(results) <= Len(api_files)
    /\ main_pc # "files" => Len(results) = Len(api_files)
    /\ \A i \in 1..Len(results) :
          /\ results[i].result.file_path = api_files[i].stem
          /\ (api_files[i].load # "ok" \/ ~IsDict(api_files[i].doc)) =>
                /\ Len(results[i].result.issues) = 1
                /\ results[i].result.issues[1].severity = "Critical"

\* a file that is no YAML, with its one Critical issue, and a file after it that went
\* through the battery
C14_Witness ==
    /\ Len(results) = 2
    /\ api_files[1].load = "yaml_error"
    /\ results[1].result.issues = <<YamlSyntax>>
    /\ api_files[2].load = "ok"
    /\ Len(results[2].result.checks_performed) > 2

(***************************************************************************)
(* Properties of the summary                                               *)
(***************************************************************************)

\* the entries of the summary in the order it lists them
Listed == sum_out[1].critical \o sum_out[1].medium

\* the numbers of Critical and Medium issues handed to generate_report
GivenCritical == sum_in.critical + (IF sum_in.others THEN 2 ELSE 0)
GivenMedium == sum_in.medium + (IF sum_in.others THEN 2 ELSE 0)

ListedOf(severity) == Len(SelectSeq(Listed, LAMBDA entry : entry[2].severity = severity))

\* C13, as the claim states it: the summary lists at most 25 issues, Critical before
\* Medium, and a Medium issue only when every Critical issue is listed
C13_CriticalTakesSlots ==
    sum_out # <<>> =>
        /\ Len(Listed) <= 25
        /\ \A i, j \in 1..Len(Listed) :
              (Listed[i][2].severity = "Medium" /\ Listed[j][2].severity = "Critical") => j < i
        /\ ListedOf("Medium") > 0 => ListedOf("Critical") = GivenCritical

\* C13, amended: the summary lists at most 25 issues, Critical before Medium; it lists
\* the first 20 Critical issues at most, and as many of the first Medium issues as the
\* 25 places leave room for after these; no issue is listed twice
C13_ReservedSlots ==
    sum_out # <<>> =>
        /\ Len(Listed) <= 25
        /\ \A i, j \in 1..Len(Listed) :
              (Listed[i][2].severity = "Medium" /\ Listed[j][2].severity = "Critical") => j < i
        /\ ListedOf("Critical") = Min(GivenCritical, 20)
        /\ ListedOf("Medium") = Min(GivenMedium, 25 - Min(GivenCritical, 20))
        /\ ListedOf("Critical") + ListedOf("Medium") = Len(Listed)
        /\ \A i, j \in 1..Len(Listed) : i # j => Listed[i] # Listed[j]

\* more than 20 Critical issues: a Medium issue is listed and the 21st Critical is not
C13_Witness ==
    /\ sum_out # <<>>
    /\ GivenCritical > 20
    /\ ListedOf("Critical") < GivenCritical
    /\ ListedOf("Medium") > 0

\* C30: the number in the closing note of the summary is the number of Critical and
\* Medium issues handed in less the number of issues listed, and the note is written
\* (the number is not 0) whenever an issue of these severities is left out of the list
C30_NoteCountsLeftOut ==
    sum_out # <<>> =>
        sum_out[1].not_shown = GivenCritical + GivenMedium - Len(Listed)

(***************************************************************************)
(* Properties of the battery                                               *)
(***************************************************************************)

\* the names the checks of the battery enter in checks_performed, for every API type
BatteryChecks == {
    "Info object validation", "Authorization template validation",
    "Error responses template validation", "External documentation validation",
    "Servers validation", "Paths validation", "Components validation",
    "Security configuration validation", "Work-in-progress version validation",
    "Generic 401 error validation (v0.6)", "Scope naming pattern validation",
    "Filename consistency validation", "Mandatory error responses validation",
    "Server URL format validation", "Commonalities schema compliance validation",
    "Event subscription compliance validation" }

\* C15: for a file that parses to a mapping, whatever the shape of its members, every
\* check of the battery runs: each check name is in checks_performed, and no
\* 'Validation Error' stands for checks that were left out
C15_FaultIsolation ==
    \A i \in 1..Len(results) :
        (ApiFiles[results[i].file].load = "ok" /\ IsDict(ApiFiles[results[i].file].doc)) =>
            /\ \A name \in BatteryChecks :
                  \E k \in 1..Len(results[i].result.checks_performed) :
                      results[i].result.checks_performed[k] = name
            /\ \A k \in 1..Len(results[i].result.issues) :
                  results[i].result.issues[k].category # "Validation Error"

(***************************************************************************)
(* Properties of the response runs                                         *)
(***************************************************************************)

\* the issues of the run of a category whose description has the words
RespIssues(category, words) ==
    SelectSeq(resp_out[1].issues,
              LAMBDA issue : issue.category = category /\ Contains(issue.description, words))

\* C16: error-response validation comes to its end for every document; a response
\* reference that leads back to a response already visited, or to nothing, is
\* reported as a reference that cannot be resolved, and is not followed again
C16_CycleReported ==
    resp_out # <<>> =>
        /\ ~resp_out[1].raised
        /\ resp_case.by \in {"self", "cycle", "unresolved", "external"} =>
              /\ Len(RespIssues("Error Responses", <<"Cannot resolve response reference: ">>)) = 1
              /\ RespIssues("Error Responses", <<"Cannot resolve response reference: ">>)[1].severity
                    = "Critical"

\* C20: for an error response of an operation that has application/json content, in
\* place or behind references to component responses, no 'should reference ErrorInfo'
\* issue is emitted iff the body schema is a $ref to the ErrorInfo schema or an allOf
\* with such a $ref among its members; otherwise exactly one Medium issue is emitted
C20_ReferencesErrorInfo ==
    (/\ resp_out # <<>>
     /\ resp_case.by \in {"in place", "component", "component twice"}
     /\ resp_case.shape # "no json") =>
        /\ ~resp_out[1].raised
        /\ IF resp_case.shape \in {"direct", "allOf"}
           THEN RespIssues("Error Responses", <<" should reference ErrorInfo schema">>) = <<>>
           ELSE /\ Len(RespIssues("Error Responses", <<" should reference ErrorInfo schema">>)) = 1
                /\ resp_out[1].issues[1].severity = "Medium"
                /\ Len(resp_out[1].issues) = 1

(***************************************************************************)
(* Properties of the calls on one validator                                *)
(***************************************************************************)

\* C17: with the steps of two calls of validate_api_file interleaved on one validator,
\* the result of each call is the result of validating its file alone, and the call
\* reads no document but its own through self.api_spec
C17_SameAsAlone ==
    \A t \in Callers :
        /\ thr_local[t].paths_spec \in {NoFile, thr_files[t]}
        /\ thr_local[t].section_spec \in {NoFile, thr_files[t]}
        /\ thr_pc[t] = "done" =>
              thr_local[t].result = <<ValidateApiFile(FileOf(t), review_type,
                                                      expected_commonalities_version)>>

\* the types of the files of the calls, written down from the documents
TypeOfFile(f) == IF f = 2 THEN "Explicit Subscription API" ELSE "Regular API"

\* C19: in a call of validate_api_file, result.api_type has the classifier's value
\* before any type-aware check runs, and the security-scheme section, the event
\* subscription check, the type-specific check and the choice of the manual checks
\* each act on this type
C19_TypeFirst ==
    \A t \in Callers :
        /\ thr_seen[t] # <<>> => thr_local[t].api_type = TypeOfFile(thr_files[t])
        /\ \A k \in 1..Len(thr_seen[t]) : thr_seen[t][k][2] = thr_local[t].api_type
        /\ (thr_pc[t] = "done" /\ FileOf(t).load = "ok") =>
              /\ thr_local[t].result[1].api_type = TypeOfFile(thr_files[t])
              /\ Len(thr_seen[t]) = 4

\* a call on the file with the subscriptions path has gone through its four type-aware
\* checks, on a validator that held the document of a regular API from the call before
C19_Witness ==
    \E t \in Callers :
        /\ thr_files[t] = 2
        /\ thr_pc[t] = "done"
        /\ Len(thr_seen[t]) = 4
        /\ \A u \in Callers \ {t} : thr_pc[u] = "done" /\ FileOf(u).load = "ok"
        /\ api_spec = 2

(***************************************************************************)
(* Properties of the responses an operation defines                        *)
(***************************************************************************)

\* the issues of the run about the responses of the operation of the case
PresenceIssues(categories) ==
    SelectSeq(chk_out[1].issues,
              LAMBDA issue :
                  /\ issue.category \in categories
                  /\ StartsWith(issue.location, OperationName(chk_case.method, <<"/", "items">>)))

\* the standard error codes the operation of the case does not define
AbsentCodes == {i \in 1..Len(ErrorCodes) : ErrorCodes[i] \notin chk_case.codes}

\* C21: for every operation, the battery reports an issue when no success (2xx)
\* response is defined, and an issue for each of the codes 400, 401, 403 and 404 the
\* operation does not define
C21_PresenceReported ==
    chk_out # <<>> =>
        /\ <<"200">> \notin chk_case.codes =>
              Len(PresenceIssues({"Responses", "Operation"})) >= 1
        /\ Len(PresenceIssues({"Error Responses"})) >= Cardinality(AbsentCodes)

(***************************************************************************)
(* Properties of the description templates                                 *)
(***************************************************************************)

\* the issues of the run in the category of the template of the case
TemplateIssues ==
    SelectSeq(chk_out[1].issues,
              LAMBDA issue : issue.category = (IF chk_case.template = "authorization"
                                               THEN "Authorization Template"
                                               ELSE "Error Responses Template"))

\* the phrases the description of the case lacks, in template order
LackedPhrases ==
    LET required == ComponentsOf(chk_case.template)
        RECURSIVE from(_)
        from(k) == IF k > Len(required) THEN <<>>
                   ELSE (IF k \in chk_case.kept THEN <<>> ELSE <<required[k]>>) \o from(k + 1)
    IN from(1)

\* the template of the case is checked: the error responses template is not, below 0.6
TemplateChecked == chk_case.template = "authorization" \/ chk_case.version = <<"0", ".", "6">>

SchemeIssues(description) ==
    SelectSeq(chk_out[1].issues,
              LAMBDA issue : /\ issue.severity = "Critical"
                             /\ issue.category = "Security Schemes"
                             /\ issue.description = description)

MissingOpenId == SchemeIssues(<<"Missing required 'openId' security scheme">>)
MissingBearer ==
    SchemeIssues(<<"Subscription APIs must include 'notificationsBearerAuth' security scheme">>)

\* C23: for a specification classified as an implicit or explicit subscription API the
\* absence of a notificationsBearerAuth scheme yields a Critical issue, for every
\* specification the absence of an openId scheme yields a Critical issue, and a
\* specification classified as regular never gets the notificationsBearerAuth issue
C23_SchemesRequired ==
    chk_out # <<>> =>
        /\ chk_out[1].api_type = (IF chk_case.kind = "regular" THEN REGULAR
                                  ELSE IF chk_case.kind = "callbacks" THEN IMPLICIT_SUBSCRIPTION
                                  ELSE EXPLICIT_SUBSCRIPTION)
        /\ (chk_case.kind # "regular" /\ ~chk_case.bearer) => Len(MissingBearer) >= 1
        /\ ~chk_case.openId => Len(MissingOpenId) >= 1
        /\ chk_case.kind = "regular" => MissingBearer = <<>>

(***************************************************************************)
(* Properties of a test file and its specification                         *)
(***************************************************************************)

\* the issues of the run in these categories
TestIssues(categories) ==
    SelectSeq(chk_out[1], LAMBDA issue : issue.category \in categories)

\* the Critical issues of the run that name the operation identifier
UnknownOperation(target) ==
    SelectSeq(TestIssues({"Test Operation IDs"}),
              LAMBDA issue : issue.severity = "Critical" /\ Contains(issue.description, target))

\* the operationId values of the operations of the specification of the case, written
\* down from the document
OperationIdsOfCase == {<<"getItems">>}

\* C24: for a matched specification and test file, every distinct operation identifier
\* the test body has as a quoted request target that is not in the operation-id set of
\* the specification yields exactly one Critical issue, and an identifier that is the
\* operationId of some operation of the specification yields none
C24_UnknownOperations ==
    chk_out # <<>> =>
        \A target \in TestTargets :
            Len(UnknownOperation(target)) =
                (IF /\ \E i \in 1..Len(chk_case.requests) : chk_case.requests[i] = target
                    /\ target \notin OperationIdsOfCase
                 THEN 1 ELSE 0)

\* C25: for a matched test file, no version issue is emitted iff a Feature line occurs
\* within the first two lines and has the exact info.version of the specification,
\* with or without a leading v; otherwise exactly one Medium issue is emitted; this
\* holds for every info.version the battery accepts, the work-in-progress marker
\* included
C25_FeatureVersion ==
    chk_out # <<>> =>
        LET version_issues == TestIssues({"Test Version", "Test Structure"})
        IN IF chk_case.header \in {1, 2} /\ chk_case.mention \in {"exact", "v"}
           THEN version_issues = <<>>
           ELSE Len(version_issues) = 1 /\ version_issues[1].severity = "Medium"

\* C27: after any sequence of validate_api_file calls on one validator, the result
\* for a file (type, issues in their order, checks performed) is the result a fresh
\* validator of the same review context returns for the file: nothing an earlier
\* file left behind, one that failed to load included, has a part in it
C27_HistoryIndependent ==
    \A t \in Callers :
        thr_pc[t] = "done" =>
            LET fresh == ValidateApiFile(FileOf(t), review_type, expected_commonalities_version)
                given == thr_local[t].result[1]
            IN /\ given.api_type = fresh.api_type
               /\ given.issues = fresh.issues
               /\ given.checks_performed = fresh.checks_performed
               /\ given = fresh

\* the file with the subscriptions path has been validated after the file that
\* resolves a reference in its components: the validator holds the later document
C27_Witness ==
    \E t \in Callers :
        /\ thr_files[t] = 2
        /\ thr_pc[t] = "done"
        /\ thr_local[t].result # <<>>
        /\ thr_local[t].section_spec = 2
        /\ api_spec = 2
        /\ \E u \in Callers \ {t} :
              /\ thr_files[u] = 1
              /\ thr_pc[u] = "done"
              /\ thr_local[u].paths_spec = 1

(***************************************************************************)
(* Properties of the shared-schema property runs                           *)
(***************************************************************************)

\* the 'Schema Consistency' issues the run of the two files gave for ErrorInfo
PropertyIssues ==
    SelectSeq(chk_out[1].result.issues,
              LAMBDA issue : issue.category = "Schema Consistency"
                             /\ Contains(issue.description, <<"ErrorInfo">>))

\* the normal forms of the two definitions of ErrorInfo
NormalFormOf(declared) == NormalizeSchemaForComparison(DeclaringSchema(declared))

\* C29: two definitions of a shared schema that declare different sets of properties
\* never have equal normal forms, and the consistency run of their files reports the
\* difference
C29_PropertySetsDiffer ==
    (chk_out # <<>> /\ chk_case.first # chk_case.second) =>
        /\ ~PyEq(NormalFormOf(chk_case.first), NormalFormOf(chk_case.second))
        /\ ~chk_out[1].raised
        /\ Len(PropertyIssues) = 1

====
